---- MODULE Spec2Model ----
(***************************************************************************)
(* Arena state machine, participant lifecycle and proximity capture engine *)
(* of Social Arena (app/core: arenas, participants, proximity, location,   *)
(* store).                                                                 *)
(*                                                                         *)
(* Concurrency model.  The core runs on one JavaScript event loop: code    *)
(* between two awaits is atomic.  startArena, endArena, leaveArena,        *)
(* assignRole and createArena read the store only after their last await,  *)
(* so each is one atomic action.  joinArena reads the arena, checks lobby, *)
(* then awaits the room-membership lookup and finishes with the stale      *)
(* arena value: it is split in JoinArenaBegin / JoinArenaFinish.           *)
(* capturePrey is synchronous up to its call of the async endArena, whose  *)
(* body runs later: CaptureEndArena.                                       *)
(***************************************************************************)
EXTENDS Integers, Sequences, FiniteSets, TLC

\* ------------------------------------------------------------------ bounds
MaxPendingJoins == 2
MaxPendingEnds == 2
MaxTicks == 2

\* ------------------------------------------------------- program constants
CAPTURE_DISTANCE_DM == 25
CAPTURE_HOLD_MS == 1500
MinDuration == 1
MaxDuration == 60
MinHunters == 1
MaxHunters == 12
RequiredPrey == 1

\* ------------------------------------------------------------ environment
Users == {1, 2, 3}
AllUsers == 1..15
Rooms == {1, 2}
ArenaInputs == {1, 2}
Modes == {"predators"}
Roles == {"prey", "hunter", "spectator"}
Durations == {0, 12, 61}
\* calls the environment issues: <<room, caller>> of createArena,
\* <<reason, winnerTeam>> of endArena
CreateInputs == {<<1, 1>>, <<1, 4>>, <<3, 1>>}
\* outcomes of generateFakeCoordinates (Math.random) at a start: everybody on
\* one spot, or the prey's user apart from the others
Spawns == {[u \in AllUsers |-> 0], [u \in AllUsers |-> IF u = 1 THEN 0 ELSE 30]}
EndInputs == {<<"host_ended", "undefined">>, <<"capture", "hunters">>,
              <<"timeout", "prey">>}
Locs == {0, 30}
PROXIMITY_CHECK_INTERVAL_MS == 1500
TimeStep == PROXIMITY_CHECK_INTERVAL_MS
MaxTime == MaxTicks * TimeStep

\* optional values: <<>> is undefined, <<x>> is x
Undefined == <<>>
Some(x) == <<x>>
IsSet(o) == o # <<>>
Val(o) == o[1]

\* store.isRoomMember over the (external, fixed) room membership table: room 1
\* has the members Users, room 2 everybody
isRoomMember(roomId, userId) ==
  \/ roomId = 1 /\ userId \in Users
  \/ roomId = 2 /\ userId \in AllUsers

VARIABLES
  arenas,               \* store.arenas: arena id -> Arena
  arenaIdCounter,       \* store.arenaIdCounter
  arenaParticipants,    \* store.arenaParticipants: <<arena id, user id>> -> ArenaParticipant
  participantIdCounter, \* store.participantIdCounter
  now,                  \* wall clock (ms)
  pendingJoins,         \* joinArena calls suspended on the membership lookup
  pendingEnds,          \* endArena(capture) calls issued by capturePrey, body not yet run
  proximityTrackers,    \* proximity registry: arena id -> ProximityTracker
  lastResult,           \* Result of the operation that completed last
  endWrites,            \* history: per arena, number of writes of status ended
  captureCalls,         \* history: per arena, number of capturePrey calls by the engine
  leftWhileActive,      \* history: participants that left while their arena was active
  inRangeSince          \* history: per arena and hunter, first tick of the current unbroken in-range run

vars == <<arenas, arenaIdCounter, arenaParticipants, participantIdCounter, now,
          pendingJoins, pendingEnds, proximityTrackers, lastResult,
          endWrites, captureCalls, leftWhileActive, inRangeSince>>

storeVars == <<arenas, arenaIdCounter, arenaParticipants, participantIdCounter>>
histVars == <<endWrites, captureCalls, leftWhileActive, inRangeSince>>

\* ------------------------------------------------------------ state machine
\* variant of VALID_TRANSITIONS: an active arena may be started again
validTransitionsWithRestart ==
  [lobby |-> {"active", "ended"}, active |-> {"active", "ended"}, ended |-> {}]

VALID_TRANSITIONS ==
  [lobby |-> {"active", "ended"}, active |-> {"ended"}, ended |-> {}]

\* variant of canTransition: any change of status passes
canTransitionAnyChange(from, to) == to # from

canTransition(from, to) == to \in VALID_TRANSITIONS[from]

\* ------------------------------------------------------------------- store
ArenaIds == DOMAIN arenas

Min(S) == CHOOSE x \in S : \A y \in S : x <= y

\* users holding a record in the arena
ParticipantUsers(arenaId) == {u \in AllUsers : <<arenaId, u>> \in DOMAIN arenaParticipants}

getArenaParticipants(arenaId) == {<<arenaId, u>> : u \in ParticipantUsers(arenaId)}

\* first key in Map insertion order (participant ids grow with insertion)
FirstKey(keys) ==
  CHOOSE k \in keys : \A k2 \in keys : arenaParticipants[k].id <= arenaParticipants[k2].id

getActiveArenaByRoomId(roomId) ==
  LET act == {a \in ArenaIds : arenas[a].room_id = roomId /\ arenas[a].status = "active"}
  IN IF act = {} THEN Undefined ELSE Some(Min(act))

getActiveArenaByUserId(userId) ==
  LET keys == {k \in DOMAIN arenaParticipants :
                 /\ k[2] = userId
                 /\ arenaParticipants[k].status = "joined"
                 /\ k[1] \in ArenaIds
                 /\ arenas[k[1]].status = "active"}
  IN IF keys = {} THEN Undefined ELSE Some(FirstKey(keys)[1])

Ok(op, arenaId, userId) ==
  [op |-> op, arena |-> arenaId, user |-> userId, success |-> TRUE,
   code |-> "OK", details |-> <<>>]

Err(op, arenaId, userId, code, details) ==
  [op |-> op, arena |-> arenaId, user |-> userId, success |-> FALSE,
   code |-> code, details |-> details]

NoResult ==
  [op |-> "none", arena |-> 0, user |-> 0, success |-> TRUE, code |-> "OK", details |-> <<>>]

Init ==
  /\ arenas = <<>>
  /\ arenaIdCounter = 1
  /\ arenaParticipants = <<>>
  /\ participantIdCounter = 1
  /\ now = 0
  /\ pendingJoins = {}
  /\ pendingEnds = [a \in ArenaInputs |-> 0]
  /\ proximityTrackers = <<>>
  /\ lastResult = NoResult
  /\ endWrites = [a \in ArenaInputs |-> 0]
  /\ captureCalls = [a \in ArenaInputs |-> 0]
  /\ leftWhileActive = {}
  /\ inRangeSince = <<>>

\* ------------------------------------------------------------- createArena
createArenaError(roomId, userId, durationMinutes) ==
  IF durationMinutes < MinDuration \/ durationMinutes > MaxDuration
    THEN Err("createArena", 0, userId, "INVALID_INPUT", <<>>)
  ELSE IF roomId \notin Rooms
    THEN Err("createArena", 0, userId, "ROOM_NOT_FOUND", <<>>)
  ELSE IF ~isRoomMember(roomId, userId)
    THEN Err("createArena", 0, userId, "NOT_MEMBER", <<>>)
  ELSE IF IsSet(getActiveArenaByRoomId(roomId))
    THEN Err("createArena", 0, userId, "ACTIVE_ARENA_EXISTS",
             <<"active_arena_id", Val(getActiveArenaByRoomId(roomId))>>)
  ELSE Ok("createArena", arenaIdCounter, userId)

CreateArena(roomId, userId, mode, durationMinutes) ==
  LET r == createArenaError(roomId, userId, durationMinutes) IN
  /\ arenaIdCounter \in ArenaInputs
  /\ lastResult' = r
  /\ IF r.success
       THEN /\ arenas' = arenas @@ (arenaIdCounter :>
                 [room_id |-> roomId, mode |-> mode, status |-> "lobby",
                  host_id |-> userId, duration_minutes |-> durationMinutes,
                  started_at |-> Undefined, ended_at |-> Undefined,
                  ended_reason |-> "undefined", winner_team |-> "undefined"])
            /\ arenaIdCounter' = arenaIdCounter + 1
       ELSE UNCHANGED <<arenas, arenaIdCounter>>
  /\ UNCHANGED <<arenaParticipants, participantIdCounter, now, pendingJoins,
                 pendingEnds, proximityTrackers>>
  /\ UNCHANGED histVars

\* -------------------------------------------------------------- startArena
\* variant of joinedKeys: participants that left are kept
joinedKeysWithLeft(arenaId) == getArenaParticipants(arenaId)

joinedKeys(arenaId) ==
  {k \in getArenaParticipants(arenaId) : arenaParticipants[k].status = "joined"}

withRole(keys, role) == {k \in keys : arenaParticipants[k].role = role}

\* variant of inOtherActiveArena: the participants are not looked up
inOtherActiveArenaUnchecked(arenaId) == {}

\* joined participants that are joined in a different arena that is active
inOtherActiveArena(arenaId) ==
  {k \in joinedKeys(arenaId) :
     /\ IsSet(getActiveArenaByUserId(k[2]))
     /\ Val(getActiveArenaByUserId(k[2])) # arenaId}

\* variant of otherActiveArenaInRoom: the room is not looked up again
otherActiveArenaInRoomUnchecked(arenaId) == FALSE

\* Invariant 1 re-check: the room has an active arena other than this one
otherActiveArenaInRoom(arenaId) ==
  /\ IsSet(getActiveArenaByRoomId(arenas[arenaId].room_id))
  /\ Val(getActiveArenaByRoomId(arenas[arenaId].room_id)) # arenaId

startArenaError(arenaId, userId) ==
  IF arenaId \notin ArenaIds
    THEN Err("startArena", arenaId, userId, "ARENA_NOT_FOUND", <<>>)
  ELSE IF arenas[arenaId].host_id # userId
    THEN Err("startArena", arenaId, userId, "NOT_HOST", <<>>)
  ELSE IF ~canTransition(arenas[arenaId].status, "active")
    THEN Err("startArena", arenaId, userId, "INVALID_STATE_TRANSITION", <<>>)
  ELSE IF otherActiveArenaInRoom(arenaId)
    THEN Err("startArena", arenaId, userId, "ACTIVE_ARENA_EXISTS",
             <<"active_arena_id", Val(getActiveArenaByRoomId(arenas[arenaId].room_id))>>)
  ELSE IF /\ arenas[arenaId].mode = "predators"
          /\ Cardinality(withRole(joinedKeys(arenaId), "prey")) # RequiredPrey
    THEN Err("startArena", arenaId, userId, "INVALID_ROLES",
             <<"prey_count", Cardinality(withRole(joinedKeys(arenaId), "prey"))>>)
  ELSE IF /\ arenas[arenaId].mode = "predators"
          /\ \/ Cardinality(withRole(joinedKeys(arenaId), "hunter")) < MinHunters
             \/ Cardinality(withRole(joinedKeys(arenaId), "hunter")) > MaxHunters
    THEN Err("startArena", arenaId, userId, "INVALID_ROLES",
             <<"hunter_count", Cardinality(withRole(joinedKeys(arenaId), "hunter"))>>)
  ELSE IF inOtherActiveArena(arenaId) # {}
    THEN Err("startArena", arenaId, userId, "PARTICIPANT_IN_ACTIVE_ARENA",
             <<"participant_user_id", FirstKey(inOtherActiveArena(arenaId))[2]>>)
  ELSE Ok("startArena", arenaId, userId)

\* initializeParticipantLocations: joined participants without coordinates get
\* generated ones (Math.random around MOCK_CENTER); gen is what the generator
\* returns for each user
needLocation(arenaId) ==
  {k \in joinedKeys(arenaId) : ~IsSet(arenaParticipants[k].loc)}

\* variant of startArenaParticipants: BLE is switched on for every joined
\* participant
startArenaParticipantsAllBle(arenaId, gen) ==
  [k \in DOMAIN arenaParticipants |->
     LET p == arenaParticipants[k]
         q == IF k \in joinedKeys(arenaId)
                THEN [p EXCEPT !.is_ble_broadcasting = TRUE,
                               !.ble_started_at = Some(now)]
                ELSE p
     IN IF k \in needLocation(arenaId)
          THEN [q EXCEPT !.loc = Some(gen[k[2]])]
          ELSE q]

\* participant records after a successful startArena: BLE on for the first
\* joined prey, generated coordinates for the joined participants without
startArenaParticipants(arenaId, gen) ==
  LET preys == withRole(joinedKeys(arenaId), "prey") IN
  [k \in DOMAIN arenaParticipants |->
     LET p == arenaParticipants[k]
         q == IF preys # {} /\ k = FirstKey(preys)
                THEN [p EXCEPT !.is_ble_broadcasting = TRUE,
                               !.ble_started_at = Some(now)]
                ELSE p
     IN IF k \in needLocation(arenaId)
          THEN [q EXCEPT !.loc = Some(gen[k[2]])]
          ELSE q]

\* variant of startedArena: the status is written without started_at
startedArenaNoTimestamp(arena) == [arena EXCEPT !.status = "active"]

\* the arena record startArena writes once its validations passed
startedArena(arena) == [arena EXCEPT !.status = "active", !.started_at = Some(now)]

StartArena(arenaId, userId, gen) ==
  LET r == startArenaError(arenaId, userId) IN
  /\ lastResult' = r
  /\ IF r.success
       THEN /\ arenas' = [arenas EXCEPT ![arenaId] = startedArena(@)]
            /\ arenaParticipants' = startArenaParticipants(arenaId, gen)
       ELSE UNCHANGED <<arenas, arenaParticipants>>
  /\ UNCHANGED <<arenaIdCounter, participantIdCounter, now, pendingJoins,
                 pendingEnds, proximityTrackers>>
  /\ UNCHANGED histVars

\* --------------------------------------------------------------- joinArena
\* first part: up to the await of the room-membership lookup
joinArenaEarlyError(arenaId, userId) ==
  IF arenaId \notin ArenaIds
    THEN Err("joinArena", arenaId, userId, "ARENA_NOT_FOUND", <<>>)
  ELSE IF arenas[arenaId].status # "lobby"
    THEN Err("joinArena", arenaId, userId, "ARENA_NOT_IN_LOBBY", <<>>)
  ELSE Ok("joinArena", arenaId, userId)

JoinArenaBegin(arenaId, userId, role) ==
  LET r == joinArenaEarlyError(arenaId, userId) IN
  /\ IF r.success
       THEN /\ Cardinality(pendingJoins) < MaxPendingJoins
            /\ pendingJoins' = pendingJoins \cup
                 {[arena |-> arenaId, user |-> userId, role |-> role,
                   status |-> arenas[arenaId].status,
                   room_id |-> arenas[arenaId].room_id]}
            /\ UNCHANGED lastResult
       ELSE /\ lastResult' = r
            /\ UNCHANGED pendingJoins
  /\ UNCHANGED <<storeVars, now, pendingEnds, proximityTrackers>>
  /\ UNCHANGED histVars

\* second part: runs with the arena value read before the await
joinArenaLateError(call) ==
  IF ~isRoomMember(call.room_id, call.user)
    THEN Err("joinArena", call.arena, call.user, "NOT_MEMBER", <<>>)
  ELSE IF /\ IsSet(getActiveArenaByUserId(call.user))
          /\ Val(getActiveArenaByUserId(call.user)) # call.arena
    THEN Err("joinArena", call.arena, call.user, "ALREADY_IN_ACTIVE_ARENA",
             <<"active_arena_id", Val(getActiveArenaByUserId(call.user))>>)
  ELSE IF /\ <<call.arena, call.user>> \in DOMAIN arenaParticipants
          /\ arenaParticipants[<<call.arena, call.user>>].status = "left"
          /\ call.status = "active"
    THEN Err("joinArena", call.arena, call.user, "CANNOT_REJOIN_ACTIVE", <<>>)
  ELSE Ok("joinArena", call.arena, call.user)

NewParticipant(role) ==
  [id |-> participantIdCounter, role |-> role, status |-> "joined",
   left_at |-> Undefined, is_captured |-> FALSE, captured_at |-> Undefined,
   captured_by_user_id |-> Undefined, loc |-> Undefined,
   is_ble_broadcasting |-> FALSE, ble_started_at |-> Undefined]

\* variant of rejoinsLobby: any existing record is updated as on a rejoin
rejoinsLobbyAnyStatus(call) == TRUE

\* the existing record is one that left and the arena (as read before the
\* await) is in lobby: the record is set back to joined with the call's role
rejoinsLobby(call) ==
  /\ arenaParticipants[<<call.arena, call.user>>].status = "left"
  /\ call.status = "lobby"

\* variant of existingParticipant: the lookup finds nothing
existingParticipantNever(call) == FALSE

\* store.getArenaParticipant(arenaId, userId) of the resumed call found a record
existingParticipant(call) == <<call.arena, call.user>> \in DOMAIN arenaParticipants

\* store.createArenaParticipant throws when the key is already in the map
createArenaParticipantThrows(k) == k \in DOMAIN arenaParticipants

\* variant of joinArenaRecord: a rejoin keeps the role the record had
joinArenaRecordKeptRole(call) ==
  LET k == <<call.arena, call.user>> IN
  IF existingParticipant(call)
    THEN IF rejoinsLobby(call)
           THEN [arenaParticipants[k] EXCEPT !.status = "joined",
                                             !.left_at = Undefined]
           ELSE arenaParticipants[k]
    ELSE NewParticipant(call.role)

\* the participant record a successful joinArena returns: the record updated
\* by a rejoin, the existing record as it is, or the record created
joinArenaRecord(call) ==
  LET k == <<call.arena, call.user>> IN
  IF existingParticipant(call)
    THEN IF rejoinsLobby(call)
           THEN [arenaParticipants[k] EXCEPT !.status = "joined",
                                             !.left_at = Undefined,
                                             !.role = call.role]
           ELSE arenaParticipants[k]
    ELSE NewParticipant(call.role)

\* the Result of a successful joinArena: the role asked for, and id, role and
\* status of the record returned
joinArenaOk(call) ==
  [Ok("joinArena", call.arena, call.user) EXCEPT
     !.details = <<call.role, joinArenaRecord(call).id, joinArenaRecord(call).role,
                   joinArenaRecord(call).status>>]

JoinArenaFinish(call) ==
  LET r == joinArenaLateError(call)
      k == <<call.arena, call.user>>
  IN
  /\ call \in pendingJoins
  /\ pendingJoins' = pendingJoins \ {call}
  /\ IF ~r.success
       THEN /\ lastResult' = r
            /\ UNCHANGED <<arenaParticipants, participantIdCounter>>
     ELSE IF existingParticipant(call)
       THEN /\ lastResult' = joinArenaOk(call)
            /\ arenaParticipants' = [arenaParticipants EXCEPT ![k] = joinArenaRecord(call)]
            /\ UNCHANGED participantIdCounter
     ELSE \* createArenaParticipant takes the next id, then looks the key up; what
          \* it throws is caught by joinArena and returned as INVALID_INPUT
          /\ participantIdCounter' = participantIdCounter + 1
          /\ IF createArenaParticipantThrows(k)
               THEN /\ lastResult' = Err("joinArena", call.arena, call.user,
                                         "INVALID_INPUT", <<>>)
                    /\ UNCHANGED arenaParticipants
               ELSE /\ lastResult' = joinArenaOk(call)
                    /\ arenaParticipants' =
                         arenaParticipants @@ (k :> joinArenaRecord(call))
  /\ UNCHANGED <<arenas, arenaIdCounter, now, pendingEnds, proximityTrackers>>
  /\ UNCHANGED histVars

\* -------------------------------------------------------------- leaveArena
leaveArenaError(arenaId, userId) ==
  IF arenaId \notin ArenaIds
    THEN Err("leaveArena", arenaId, userId, "ARENA_NOT_FOUND", <<>>)
  ELSE IF <<arenaId, userId>> \notin DOMAIN arenaParticipants
    THEN Err("leaveArena", arenaId, userId, "PARTICIPANT_NOT_FOUND", <<>>)
  ELSE Ok("leaveArena", arenaId, userId)

\* variant of allLeft: the cascade is never taken
allLeftNever(arenaId, parts) == FALSE

\* variant of allLeft: the arena's status is not looked at
allLeftAnyStatus(arenaId, parts) ==
  {k \in getArenaParticipants(arenaId) : parts[k].status = "joined"} = {}

\* the all-left cascade: no participant joined any more and the arena active
allLeft(arenaId, parts) ==
  /\ {k \in getArenaParticipants(arenaId) : parts[k].status = "joined"} = {}
  /\ arenas[arenaId].status = "active"

\* variant of alreadyLeft: the record's status is not looked at
alreadyLeftIgnored(arenaId, userId) == FALSE

\* the participant has left already: leaveArena returns success at once
alreadyLeft(arenaId, userId) ==
  arenaParticipants[<<arenaId, userId>>].status = "left"

LeaveArena(arenaId, userId) ==
  LET r == leaveArenaError(arenaId, userId)
      k == <<arenaId, userId>>
      left == [arenaParticipants EXCEPT ![k].status = "left",
                                        ![k].left_at = Some(now),
                                        ![k].is_ble_broadcasting = FALSE]
  IN
  /\ lastResult' = r
  /\ IF r.success /\ ~alreadyLeft(arenaId, userId)
       THEN /\ arenaParticipants' = left
            /\ leftWhileActive' = IF arenas[arenaId].status = "active"
                                    THEN leftWhileActive \cup {k}
                                    ELSE leftWhileActive
            /\ IF allLeft(arenaId, left)
                 THEN /\ arenas' = [arenas EXCEPT ![arenaId].status = "ended",
                                                  ![arenaId].ended_at = Some(now),
                                                  ![arenaId].ended_reason = "all_left"]
                      /\ endWrites' = [endWrites EXCEPT ![arenaId] = @ + 1]
                 ELSE UNCHANGED <<arenas, endWrites>>
       ELSE UNCHANGED <<arenas, arenaParticipants, endWrites, leftWhileActive>>
  /\ UNCHANGED <<arenaIdCounter, participantIdCounter, now, pendingJoins,
                 pendingEnds, proximityTrackers, captureCalls, inRangeSince>>

\* -------------------------------------------------------------- assignRole
assignRoleError(arenaId, currentUserId, userId) ==
  IF arenaId \notin ArenaIds
    THEN Err("assignRole", arenaId, currentUserId, "ARENA_NOT_FOUND", <<>>)
  ELSE IF arenas[arenaId].host_id # currentUserId
    THEN Err("assignRole", arenaId, currentUserId, "NOT_HOST", <<>>)
  ELSE IF arenas[arenaId].status # "lobby"
    THEN Err("assignRole", arenaId, currentUserId, "ARENA_NOT_IN_LOBBY", <<>>)
  ELSE IF <<arenaId, userId>> \notin DOMAIN arenaParticipants
    THEN Err("assignRole", arenaId, currentUserId, "PARTICIPANT_NOT_FOUND", <<>>)
  ELSE Ok("assignRole", arenaId, currentUserId)

AssignRole(arenaId, currentUserId, userId, role) ==
  LET r == assignRoleError(arenaId, currentUserId, userId) IN
  /\ lastResult' = r
  /\ IF r.success
       THEN arenaParticipants' = [arenaParticipants EXCEPT ![<<arenaId, userId>>].role = role]
       ELSE UNCHANGED arenaParticipants
  /\ UNCHANGED <<arenas, arenaIdCounter, participantIdCounter, now, pendingJoins,
                 pendingEnds, proximityTrackers>>
  /\ UNCHANGED histVars

\* ---------------------------------------------------------------- endArena
\* variant of endArenaError: the caller is not compared with the host
endArenaErrorNoHostCheck(op, arenaId, userId, reason) ==
  IF arenaId \notin ArenaIds
    THEN Err(op, arenaId, userId, "ARENA_NOT_FOUND", <<>>)
  ELSE IF ~canTransition(arenas[arenaId].status, "ended")
    THEN Err(op, arenaId, userId, "INVALID_STATE_TRANSITION", <<>>)
  ELSE Ok(op, arenaId, userId)

endArenaError(op, arenaId, userId, reason) ==
  IF arenaId \notin ArenaIds
    THEN Err(op, arenaId, userId, "ARENA_NOT_FOUND", <<>>)
  ELSE IF /\ arenas[arenaId].host_id # userId
          /\ reason \notin {"all_left", "timeout", "capture"}
    THEN Err(op, arenaId, userId, "NOT_HOST", <<>>)
  ELSE IF ~canTransition(arenas[arenaId].status, "ended")
    THEN Err(op, arenaId, userId, "INVALID_STATE_TRANSITION", <<>>)
  ELSE Ok(op, arenaId, userId)

\* variant of endArenaParticipants: the BLE flags are left as they are
endArenaParticipantsBleKept(arenaId, reason, winnerTeam) ==
  LET preys == withRole(joinedKeys(arenaId), "prey") IN
  [k \in DOMAIN arenaParticipants |->
     LET q == arenaParticipants[k]
     IN IF preys # {} /\ k = FirstKey(preys)
          THEN IF reason = "capture" /\ winnerTeam = "hunters"
                 THEN [q EXCEPT !.status = "captured", !.is_captured = TRUE,
                                !.captured_at = Some(now)]
               ELSE IF reason = "timeout" /\ winnerTeam = "prey"
                 THEN [q EXCEPT !.status = "escaped"]
               ELSE q
          ELSE q]

\* variant of endArenaParticipants: the captured prey gets no captured_at
endArenaParticipantsNoCapturedAt(arenaId, reason, winnerTeam) ==
  LET preys == withRole(joinedKeys(arenaId), "prey") IN
  [k \in DOMAIN arenaParticipants |->
     LET p == arenaParticipants[k]
         q == IF k[1] = arenaId THEN [p EXCEPT !.is_ble_broadcasting = FALSE] ELSE p
     IN IF preys # {} /\ k = FirstKey(preys)
          THEN IF reason = "capture" /\ winnerTeam = "hunters"
                 THEN [q EXCEPT !.status = "captured", !.is_captured = TRUE]
               ELSE IF reason = "timeout" /\ winnerTeam = "prey"
                 THEN [q EXCEPT !.status = "escaped"]
               ELSE q
          ELSE q]

\* participant records after a successful endArena: BLE off everywhere, the
\* first joined prey marked captured (capture/hunters) or escaped (timeout/prey)
endArenaParticipants(arenaId, reason, winnerTeam) ==
  LET preys == withRole(joinedKeys(arenaId), "prey") IN
  [k \in DOMAIN arenaParticipants |->
     LET p == arenaParticipants[k]
         q == IF k[1] = arenaId THEN [p EXCEPT !.is_ble_broadcasting = FALSE] ELSE p
     IN IF preys # {} /\ k = FirstKey(preys)
          THEN IF reason = "capture" /\ winnerTeam = "hunters"
                 THEN [q EXCEPT !.status = "captured", !.is_captured = TRUE,
                                !.captured_at = Some(now)]
               ELSE IF reason = "timeout" /\ winnerTeam = "prey"
                 THEN [q EXCEPT !.status = "escaped"]
               ELSE q
          ELSE q]

\* the body of endArena, run by user userId (op names the entry point)
endArenaBody(op, arenaId, userId, reason, winnerTeam) ==
  LET r == endArenaError(op, arenaId, userId, reason) IN
  /\ lastResult' = r
  /\ IF r.success
       THEN /\ arenas' = [arenas EXCEPT ![arenaId].status = "ended",
                                        ![arenaId].ended_at = Some(now),
                                        ![arenaId].ended_reason = reason,
                                        ![arenaId].winner_team = winnerTeam]
            /\ arenaParticipants' = endArenaParticipants(arenaId, reason, winnerTeam)
            /\ endWrites' = [endWrites EXCEPT ![arenaId] = @ + 1]
       ELSE UNCHANGED <<arenas, arenaParticipants, endWrites>>

EndArena(arenaId, userId, reason, winnerTeam) ==
  /\ endArenaBody("endArena", arenaId, userId, reason, winnerTeam)
  /\ UNCHANGED <<arenaIdCounter, participantIdCounter, now, pendingJoins,
                 pendingEnds, proximityTrackers, captureCalls, leftWhileActive,
                 inRangeSince>>

CancelArena(arenaId, userId) ==
  /\ endArenaBody("cancelArena", arenaId, userId, "cancelled", "undefined")
  /\ UNCHANGED <<arenaIdCounter, participantIdCounter, now, pendingJoins,
                 pendingEnds, proximityTrackers, captureCalls, leftWhileActive,
                 inRangeSince>>

\* ------------------------------------------------------- location updates
\* updateParticipantLocation with valid coordinates; the store ignores a
\* missing record
UpdateParticipantLocation(arenaId, userId, loc) ==
  /\ <<arenaId, userId>> \in DOMAIN arenaParticipants
  /\ arenaParticipants' = [arenaParticipants EXCEPT ![<<arenaId, userId>>].loc = Some(loc)]
  /\ UNCHANGED <<arenas, arenaIdCounter, participantIdCounter, now, pendingJoins,
                 pendingEnds, proximityTrackers, lastResult>>
  /\ UNCHANGED histVars

\* the clock advances
Advance ==
  /\ now + TimeStep <= MaxTime
  /\ now' = now + TimeStep
  /\ UNCHANGED <<storeVars, pendingJoins, pendingEnds, proximityTrackers, lastResult>>
  /\ UNCHANGED histVars

\* the active-arena screen's time remaining, in seconds: the duration less
\* the whole seconds since started_at, never below 0, and 0 when not started
timeRemaining(arenaId) ==
  IF IsSet(arenas[arenaId].started_at)
    THEN LET left == arenas[arenaId].duration_minutes * 60
                       - ((now - Val(arenas[arenaId].started_at)) \div 1000)
         IN IF left > 0 THEN left ELSE 0
    ELSE 0

\* the clock runs until the arena's duration is over
Expire(arenaId) ==
  /\ arenaId \in ArenaIds
  /\ timeRemaining(arenaId) > 0
  /\ now' = now + timeRemaining(arenaId) * 1000
  /\ UNCHANGED <<storeVars, pendingJoins, pendingEnds, proximityTrackers, lastResult>>
  /\ UNCHANGED histVars

\* -------------------------------------------------------- proximity engine
\* haversine distance of two points of one meridian, in decimetres: the arc
\* length between them
calculateDistance(loc1, loc2) == IF loc1 >= loc2 THEN loc1 - loc2 ELSE loc2 - loc1

NewTracker ==
  [isRunning |-> FALSE, intervalSet |-> FALSE, captureFired |-> FALSE, hunterStates |-> <<>>]

\* ProximityTracker.stop
stop(t) == [t EXCEPT !.intervalSet = FALSE, !.isRunning = FALSE, !.hunterStates = <<>>]

Remove(f, x) == [y \in DOMAIN f \ {x} |-> f[y]]
Put(f, x, v) == [y \in DOMAIN f \cup {x} |-> IF y = x THEN v ELSE f[y]]

\* joined hunters of the arena in Map insertion order
RECURSIVE InOrder(_)
InOrder(keys) ==
  IF keys = {} THEN <<>> ELSE <<FirstKey(keys)>> \o InOrder(keys \ {FirstKey(keys)})

\* what the tracker does with a hunter that has coordinates and distance d:
\* "start" the timer, "capture", "keep" waiting, or "reset" the timer
inCaptureRange(d) == d <= CAPTURE_DISTANCE_DM

\* variant of heldLongEnough: any hold is long enough
heldAtAll(start) == TRUE

heldLongEnough(start) == now - start >= CAPTURE_HOLD_MS

\* variant of hunterStep: leaving the range keeps the timer
hunterStepNoReset(states, h, d) ==
  IF inCaptureRange(d)
    THEN IF h \notin DOMAIN states \/ ~IsSet(states[h]) THEN "start"
         ELSE IF heldLongEnough(Val(states[h])) THEN "capture" ELSE "keep"
    ELSE "keep"

hunterStep(states, h, d) ==
  IF inCaptureRange(d)
    THEN IF h \notin DOMAIN states \/ ~IsSet(states[h]) THEN "start"
         ELSE IF heldLongEnough(Val(states[h])) THEN "capture" ELSE "keep"
    ELSE "reset"

\* variant of afterMissingLocation: the loop ends at a hunter without
\* coordinates
afterMissingLocationNone(rest) == <<>>

\* the hunters still to look at after one without coordinates: `continue`
afterMissingLocation(rest) == rest

\* the loop of checkProximity over the hunters hs (a sequence of keys):
\* the hunter states after the loop and the capturing hunter, if any
RECURSIVE hunterLoop(_, _, _)
hunterLoop(hs, states, preyLoc) ==
  IF hs = <<>> THEN [states |-> states, capturer |-> Undefined]
  ELSE LET h == Head(hs)[2]
           p == arenaParticipants[Head(hs)]
       IN IF ~IsSet(p.loc)
            THEN hunterLoop(afterMissingLocation(Tail(hs)), Remove(states, h), preyLoc)
          ELSE LET step == hunterStep(states, h, calculateDistance(preyLoc, Val(p.loc))) IN
               IF step = "capture" THEN [states |-> states, capturer |-> Some(h)]
               ELSE IF step = "start"
                 THEN hunterLoop(Tail(hs), Put(states, h, Some(now)), preyLoc)
               ELSE IF step = "reset"
                 THEN hunterLoop(Tail(hs), Put(states, h, Undefined), preyLoc)
               ELSE hunterLoop(Tail(hs), states, preyLoc)

\* history: the same loop over what was measured, kept apart from the
\* tracker's own cache: per hunter the time of the tick that began its
\* unbroken in-range run (at; Outside when last measured out of range) and
\* whether it had been in range and out again before (re)
Outside == 0 - 1

RECURSIVE measuredLoop(_, _, _, _)
measuredLoop(hs, since, preyLoc, capturer) ==
  IF hs = <<>> THEN since
  ELSE LET h == Head(hs)[2]
           p == arenaParticipants[Head(hs)]
           inRange == IsSet(p.loc) /\ calculateDistance(preyLoc, Val(p.loc)) <= CAPTURE_DISTANCE_DM
           next == IF ~inRange
                     THEN IF h \in DOMAIN since
                            THEN Put(since, h, [at |-> Outside, re |-> TRUE])
                            ELSE since
                   ELSE IF h \notin DOMAIN since
                     THEN Put(since, h, [at |-> now, re |-> FALSE])
                   ELSE IF since[h].at = Outside
                     THEN Put(since, h, [at |-> now, re |-> TRUE])
                   ELSE since
       IN IF capturer = Some(h) THEN next
          ELSE measuredLoop(Tail(hs), next, preyLoc, capturer)

\* variant of arenaIsTracked: the arena's status is not looked at
arenaIsTrackedAnyStatus(arenaId) ==
  /\ arenaId \in ArenaIds
  /\ arenas[arenaId].mode = "predators"

arenaIsTracked(arenaId) ==
  /\ arenaId \in ArenaIds
  /\ arenas[arenaId].status = "active"
  /\ arenas[arenaId].mode = "predators"

\* checkProximity of tracker t of the arena; the tracker after the tick, the
\* capture it fires (<<hunter, prey>>) and the history of measurements
checkProximity(arenaId, t, since) ==
  LET preys == withRole(joinedKeys(arenaId), "prey")
      hunters == InOrder(withRole(joinedKeys(arenaId), "hunter"))
  IN
  IF t.captureFired
    THEN [tracker |-> t, capture |-> Undefined, since |-> since]
  ELSE IF ~arenaIsTracked(arenaId)
    THEN [tracker |-> stop(t), capture |-> Undefined, since |-> <<>>]
  ELSE IF preys = {} \/ ~IsSet(arenaParticipants[FirstKey(preys)].loc)
    THEN [tracker |-> t, capture |-> Undefined, since |-> since]
  ELSE LET preyLoc == Val(arenaParticipants[FirstKey(preys)].loc)
           l == hunterLoop(hunters, t.hunterStates, preyLoc)
       IN IF IsSet(l.capturer)
            THEN [tracker |-> t, capture |-> Some(<<Val(l.capturer), FirstKey(preys)[2]>>),
                  since |-> measuredLoop(hunters, since, preyLoc, l.capturer)]
            ELSE [tracker |-> [t EXCEPT !.hunterStates = l.states], capture |-> Undefined,
                  since |-> measuredLoop(hunters, since, preyLoc, l.capturer)]

\* capturePrey up to its call of endArena: the failure it returns, or "PENDING"
\* when it returned the promise of endArena
capturePreyError(arenaId, preyUserId) ==
  IF arenaId \notin ArenaIds THEN "ARENA_NOT_FOUND"
  ELSE IF arenas[arenaId].status # "active" THEN "INVALID_STATE_TRANSITION"
  ELSE IF \/ <<arenaId, preyUserId>> \notin DOMAIN arenaParticipants
          \/ arenaParticipants[<<arenaId, preyUserId>>].role # "prey"
    THEN "PARTICIPANT_NOT_FOUND"
  ELSE "PENDING"

\* fireCapture reads result.success of what capturePrey returned: a failure
\* Result has success false, the promise of endArena has no success at all;
\* either way the latch is reset
latchAfterCapture(outcome) == IF outcome = "OK" THEN TRUE ELSE FALSE

\* variant of capturePrey: the prey's record is not updated
capturePreyUnmarked(arenaId, hunterId, preyId) ==
  /\ captureCalls' = [captureCalls EXCEPT ![arenaId] = @ + 1]
  /\ IF capturePreyError(arenaId, preyId) = "PENDING"
       THEN /\ UNCHANGED arenaParticipants
            /\ pendingEnds' = [pendingEnds EXCEPT ![arenaId] = @ + 1]
       ELSE UNCHANGED <<arenaParticipants, pendingEnds>>

\* the store's side of capturePrey(arenaId, hunterUserId, preyUserId): the prey
\* is marked captured and endArena is called, its body still to run
capturePrey(arenaId, hunterId, preyId) ==
  /\ captureCalls' = [captureCalls EXCEPT ![arenaId] = @ + 1]
  /\ IF capturePreyError(arenaId, preyId) = "PENDING"
       THEN /\ arenaParticipants' =
                 [arenaParticipants EXCEPT ![<<arenaId, preyId>>] =
                    [@ EXCEPT !.status = "captured", !.is_captured = TRUE,
                              !.captured_at = Some(now),
                              !.captured_by_user_id = Some(hunterId),
                              !.is_ble_broadcasting = FALSE]]
            /\ pendingEnds' = [pendingEnds EXCEPT ![arenaId] = @ + 1]
       ELSE UNCHANGED <<arenaParticipants, pendingEnds>>

\* variant of fireCapture: the latch is set and capturePrey is not called
fireCaptureLatchedOnly(arenaId, t, hunterId, preyId) ==
  /\ proximityTrackers' =
       [proximityTrackers EXCEPT ![arenaId] = [stop(t) EXCEPT !.captureFired = TRUE]]
  /\ UNCHANGED <<captureCalls, arenaParticipants, pendingEnds>>

\* the effects of fireCapture(hunterId, preyId) of tracker t
fireCapture(arenaId, t, hunterId, preyId) ==
  /\ proximityTrackers' =
       [proximityTrackers EXCEPT ![arenaId] =
          [stop(t) EXCEPT !.captureFired =
                            latchAfterCapture(capturePreyError(arenaId, preyId))]]
  /\ capturePrey(arenaId, hunterId, preyId)

\* capturePrey called on its own (it is exported): what a firing tick does to
\* the store, without the tracker
CapturePrey(arenaId, hunterId, preyId) ==
  /\ pendingEnds[arenaId] < MaxPendingEnds
  /\ capturePrey(arenaId, hunterId, preyId)
  /\ UNCHANGED <<arenas, arenaIdCounter, participantIdCounter, now, pendingJoins,
                 proximityTrackers, lastResult, endWrites, leftWhileActive,
                 inRangeSince>>

\* one firing of the tracker's interval
Tick(arenaId) ==
  /\ arenaId \in DOMAIN proximityTrackers
  /\ proximityTrackers[arenaId].intervalSet
  /\ LET c == checkProximity(arenaId, proximityTrackers[arenaId],
                             IF arenaId \in DOMAIN inRangeSince THEN inRangeSince[arenaId] ELSE <<>>)
     IN /\ IF IsSet(c.capture)
             THEN /\ pendingEnds[arenaId] < MaxPendingEnds
                  /\ fireCapture(arenaId, c.tracker, Val(c.capture)[1], Val(c.capture)[2])
             ELSE /\ proximityTrackers' = [proximityTrackers EXCEPT ![arenaId] = c.tracker]
                  /\ UNCHANGED <<arenaParticipants, pendingEnds, captureCalls>>
        /\ inRangeSince' = Put(inRangeSince, arenaId, c.since)
  /\ UNCHANGED <<arenas, arenaIdCounter, participantIdCounter, now, pendingJoins,
                 lastResult, endWrites, leftWhileActive>>

\* the body of the endArena(arenaId, 'capture', 'hunters') that capturePrey called
CaptureEndArena(arenaId) ==
  /\ pendingEnds[arenaId] > 0
  /\ pendingEnds' = [pendingEnds EXCEPT ![arenaId] = @ - 1]
  /\ endArenaBody("capturePrey", arenaId, 0, "capture", "hunters")
  /\ UNCHANGED <<arenaIdCounter, participantIdCounter, now, pendingJoins,
                 proximityTrackers, captureCalls, leftWhileActive, inRangeSince>>

\* startProximityTracking: the old tracker is stopped and dropped, a new one
\* started; start() runs one check at once and then arms the interval
StartProximityTracking(arenaId) ==
  /\ arenaId \in ArenaIds
  /\ LET c == checkProximity(arenaId, [NewTracker EXCEPT !.isRunning = TRUE], <<>>) IN
     /\ proximityTrackers' = Put(proximityTrackers, arenaId,
                                 [c.tracker EXCEPT !.intervalSet = TRUE])
     /\ inRangeSince' = Put(inRangeSince, arenaId, c.since)
  /\ UNCHANGED <<storeVars, now, pendingJoins, pendingEnds, lastResult,
                 endWrites, captureCalls, leftWhileActive>>

\* variant of stopProximityTracking: the tracker is stopped and kept in the
\* registry
stopProximityTrackingKept(trackers, arenaId) ==
  IF arenaId \in DOMAIN trackers
    THEN [trackers EXCEPT ![arenaId] = stop(@)]
    ELSE trackers

\* the registry after stopProximityTracking(arenaId): the arena's tracker, if
\* any, is stopped and dropped
stopProximityTracking(trackers, arenaId) ==
  IF arenaId \in DOMAIN trackers THEN Remove(trackers, arenaId) ELSE trackers

StopProximityTracking(arenaId) ==
  /\ proximityTrackers' = stopProximityTracking(proximityTrackers, arenaId)
  /\ inRangeSince' = Remove(inRangeSince, arenaId)
  /\ UNCHANGED <<storeVars, now, pendingJoins, pendingEnds, lastResult,
                 endWrites, captureCalls, leftWhileActive>>

\* ------------------------------------------------------ haversine distance
\* calculateDistance(lat1, lon1, lat2, lon2) of the source, on whole degrees,
\* in fixed-point arithmetic: angles and the values of sin, cos and sqrt are
\* integers counting millionths, products are formed in two halves so that no
\* intermediate value leaves 32 bits, the series are those of sin, cos and
\* atan cut after the terms that matter below one millionth for angles of a
\* few degrees
Micro == 1000000
EARTH_RADIUS_M == 6371000
MICRORAD_PER_DEGREE == 17453

Abs(x) == IF x >= 0 THEN x ELSE -x

\* a * b and a / b of two non-negative fixed-point numbers; a product of two
\* small numbers is rounded to the nearest millionth
mulMicro(a, b) ==
  IF a <= 46340 /\ b <= 46340
    THEN (a * b + Micro \div 2) \div Micro
    ELSE ((a \div 1000) * b) \div 1000 + ((a % 1000) * b) \div Micro
divMicro(a, b) ==
  LET q == (a * 1000) \div b
      r == (a * 1000) % b
  IN q * 1000 + (r * 1000) \div b

toRadians(degrees) == degrees * MICRORAD_PER_DEGREE

\* x / 2, rounded towards zero for either sign
halfAngle(x) == IF x >= 0 THEN x \div 2 ELSE -((-x) \div 2)

\* Math.sin and Math.cos: sin is odd, cos is even
sinMicro(x) ==
  LET m == Abs(x)
      v == m - mulMicro(mulMicro(m, m), m) \div 6
  IN IF x >= 0 THEN v ELSE -v

cosMicro(x) ==
  LET m2 == mulMicro(Abs(x), Abs(x))
  IN Micro - m2 \div 2 + mulMicro(m2, m2) \div 24

RECURSIVE isqrtFrom(_, _)
isqrtFrom(x, r) ==
  LET n == (r + x \div r) \div 2
  IN IF n >= r THEN r ELSE isqrtFrom(x, n)

\* the integer square root
isqrt(x) == IF x = 0 THEN 0 ELSE isqrtFrom(x, x)

\* Math.sqrt of a fixed-point number between 0 and 1
sqrtMicro(x) == IF x <= 2000 THEN isqrt(x * Micro) ELSE isqrt(x * 100) * 100

\* Math.atan2(y, x) for y >= 0 and x >= 0, not both 0
atan2Micro(y, x) ==
  LET atanSmall(t) == t - mulMicro(mulMicro(t, t), t) \div 3
  IN IF y <= x
       THEN atanSmall(divMicro(y, x))
       ELSE (3141593 \div 2) - atanSmall(divMicro(x, y))

\* variant of haversineA: the differences are not halved
haversineAWholeAngles(lat1, lon1, lat2, lon2) ==
  LET sLat == Abs(sinMicro(toRadians(lat2 - lat1)))
      sLon == Abs(sinMicro(toRadians(lon2 - lon1)))
  IN mulMicro(sLat, sLat)
       + mulMicro(mulMicro(cosMicro(toRadians(lat1)), cosMicro(toRadians(lat2))),
                  mulMicro(sLon, sLon))

\* the haversine term a
haversineA(lat1, lon1, lat2, lon2) ==
  LET sLat == Abs(sinMicro(halfAngle(toRadians(lat2 - lat1))))
      sLon == Abs(sinMicro(halfAngle(toRadians(lon2 - lon1))))
  IN mulMicro(sLat, sLat)
       + mulMicro(mulMicro(cosMicro(toRadians(lat1)), cosMicro(toRadians(lat2))),
                  mulMicro(sLon, sLon))

\* the distance in metres: R * c with c = 2 * atan2(sqrt(a), sqrt(1 - a))
haversineMeters(lat1, lon1, lat2, lon2) ==
  LET a == haversineA(lat1, lon1, lat2, lon2)
      c == 2 * atan2Micro(sqrtMicro(a), sqrtMicro(Micro - a))
      km == EARTH_RADIUS_M \div 1000
  IN (c \div 1000) * km + ((c % 1000) * km) \div 1000

\* one call of calculateDistance on the points held in lastResult.details
CalculateDistance ==
  /\ lastResult.op = "none"
  /\ Len(lastResult.details) = 4
  /\ lastResult' =
       [lastResult EXCEPT
          !.op = "calculateDistance",
          !.details = lastResult.details \o
             <<haversineMeters(lastResult.details[1], lastResult.details[2],
                               lastResult.details[3], lastResult.details[4])>>]
  /\ UNCHANGED <<storeVars, now, pendingJoins, pendingEnds, proximityTrackers>>
  /\ UNCHANGED histVars

\* ------------------------------------------------------------ specifications
Callers == {1, 2}
FirstRole == [u \in Users |-> IF u = 1 THEN "prey" ELSE IF u = 2 THEN "hunter" ELSE "spectator"]
Outsider == Min(AllUsers \ Users)
NoSpread == [u \in AllUsers |-> 0]

\* Spec: the store from construction; one arena, three users, every
\* lifecycle operation
Next ==
  \/ \E c \in CreateInputs, m \in Modes, d \in Durations :
       ArenaIds = {} /\ CreateArena(c[1], c[2], m, d)
  \/ \E u \in Callers : StartArena(1, u, NoSpread)
  \/ \E u \in Users : JoinArenaBegin(1, u, FirstRole[u])
  \/ JoinArenaBegin(1, Outsider, "spectator")
  \/ \E call \in pendingJoins : JoinArenaFinish(call)
  \/ \E u \in Users : LeaveArena(1, u)
  \/ \E u \in Callers, e \in EndInputs : EndArena(1, u, e[1], e[2])
  \/ \E u \in Callers : CancelArena(1, u)

Spec == Init /\ [][Next]_vars

\* SpecRooms: arena 1 of room 1 in lobby with its prey (user 1, the host) and
\* its hunter (user 2) joined; a second arena is created in room 1 or room 2
LobbyParticipant(id, role) ==
  [id |-> id, role |-> role, status |-> "joined",
   left_at |-> Undefined, is_captured |-> FALSE, captured_at |-> Undefined,
   captured_by_user_id |-> Undefined, loc |-> Undefined,
   is_ble_broadcasting |-> FALSE, ble_started_at |-> Undefined]

\* a joined participant of an arena started at time 0
EngineRecord(id, role) ==
  [id |-> id, role |-> role, status |-> "joined",
   left_at |-> Undefined, is_captured |-> FALSE, captured_at |-> Undefined,
   captured_by_user_id |-> Undefined, loc |-> Undefined,
   is_ble_broadcasting |-> (role = "prey"),
   ble_started_at |-> IF role = "prey" THEN Some(0) ELSE Undefined]

InitRooms ==
  /\ arenas = (1 :> [room_id |-> 1, mode |-> "predators", status |-> "lobby",
                     host_id |-> 1, duration_minutes |-> 12,
                     started_at |-> Undefined, ended_at |-> Undefined,
                     ended_reason |-> "undefined", winner_team |-> "undefined"])
  /\ arenaIdCounter = 2
  /\ arenaParticipants = (<<1, 1>> :> LobbyParticipant(1, "prey")) @@
                         (<<1, 2>> :> LobbyParticipant(2, "hunter"))
  /\ participantIdCounter = 3
  /\ now = 0
  /\ pendingJoins = {}
  /\ pendingEnds = [a \in ArenaInputs |-> 0]
  /\ proximityTrackers = <<>>
  /\ lastResult = Ok("joinArena", 1, 2)
  /\ endWrites = [a \in ArenaInputs |-> 0]
  /\ captureCalls = [a \in ArenaInputs |-> 0]
  /\ leftWhileActive = {}
  /\ inRangeSince = <<>>

SecondRole == [u \in Users |-> IF u = 2 THEN "hunter" ELSE "prey"]

NextRooms ==
  \/ CreateArena(1, 3, "predators", 12)
  \/ \E a \in ArenaIds : StartArena(a, arenas[a].host_id, NoSpread)
  \/ \E u \in {2, 3} : JoinArenaBegin(2, u, SecondRole[u])
  \/ \E call \in pendingJoins : JoinArenaFinish(call)
  \/ \E k \in DOMAIN arenaParticipants : LeaveArena(k[1], k[2])
  \/ \E a \in ArenaIds : EndArena(a, arenas[a].host_id, "host_ended", "undefined")
  \/ /\ arenas[1].status = "active"
     /\ <<1, 1>> \in joinedKeys(1)
     /\ <<1, 2>> \in joinedKeys(1)
     /\ CapturePrey(1, 2, 1)     \* what a tick does that fires for hunter 2
  \/ CaptureEndArena(1)

SpecRooms == InitRooms /\ [][NextRooms]_vars

\* SpecUsers: the same start, the second arena in another room, every user
\* joining it
NextUsers ==
  \/ CreateArena(2, 2, "predators", 12)
  \/ \E a \in ArenaIds : StartArena(a, arenas[a].host_id, NoSpread)
  \/ \E u \in Users : JoinArenaBegin(2, u, SecondRole[u])
  \/ \E call \in pendingJoins : JoinArenaFinish(call)
  \/ \E k \in DOMAIN arenaParticipants : LeaveArena(k[1], k[2])
  \/ \E a \in ArenaIds : EndArena(a, arenas[a].host_id, "host_ended", "undefined")

SpecUsers == InitRooms /\ [][NextUsers]_vars

\* SpecRoleGate: arena 1 of room 2 in lobby with a roster of gateHunters joined
\* hunters, gatePreys joined preys and possibly one participant that left;
\* possibly arena 2 of the same room already active
GateHunters == {0, MinHunters, MaxHunters, MaxHunters + 1}
GatePreys == {0, RequiredPrey, RequiredPrey + 1}
GateLeft == {"none", "prey", "hunter"}

Roster(h, p, l) ==
  [k \in {1} \X (1..(h + p + (IF l = "none" THEN 0 ELSE 1))) |->
     LET u == k[2] IN
     IF u <= h THEN LobbyParticipant(u, "hunter")
     ELSE IF u <= h + p THEN LobbyParticipant(u, "prey")
     ELSE [LobbyParticipant(u, l) EXCEPT !.status = "left", !.left_at = Some(0)]]

OtherArenaRoster ==
  (<<2, 14>> :> [EngineRecord(16, "hunter") EXCEPT !.loc = Some(0)]) @@
  (<<2, 15>> :> [EngineRecord(17, "prey") EXCEPT !.loc = Some(0)])

InitRoleGate ==
  \E h \in GateHunters, p \in GatePreys, l \in GateLeft, other \in BOOLEAN :
    /\ h + p + (IF l = "none" THEN 0 ELSE 1) <= Cardinality(AllUsers)
    /\ arenas =
         (1 :> [room_id |-> 2, mode |-> "predators", status |-> "lobby",
                host_id |-> 1, duration_minutes |-> 12,
                started_at |-> Undefined, ended_at |-> Undefined,
                ended_reason |-> "undefined", winner_team |-> "undefined"]) @@
         (IF other
            THEN 2 :> [room_id |-> 2, mode |-> "predators", status |-> "active",
                       host_id |-> 2, duration_minutes |-> 12,
                       started_at |-> Some(0), ended_at |-> Undefined,
                       ended_reason |-> "undefined", winner_team |-> "undefined"]
            ELSE <<>>)
    /\ arenaIdCounter = IF other THEN 3 ELSE 2
    /\ arenaParticipants = Roster(h, p, l) @@ (IF other THEN OtherArenaRoster ELSE <<>>)
    /\ participantIdCounter = 18
    /\ now = 0
    /\ pendingJoins = {}
    /\ pendingEnds = [a \in ArenaInputs |-> 0]
    /\ proximityTrackers = <<>>
    /\ lastResult = NoResult
    /\ endWrites = [a \in ArenaInputs |-> 0]
    /\ captureCalls = [a \in ArenaInputs |-> 0]
    /\ leftWhileActive = {}
    /\ inRangeSince = <<>>

NextRoleGate ==
  \/ StartArena(1, 1, NoSpread)
  \/ \E u \in Users : LeaveArena(1, u)
  \/ \E u \in Users, role \in Roles : AssignRole(1, 1, u, role)
  \/ 2 \in ArenaIds /\ EndArena(2, 2, "host_ended", "undefined")

SpecRoleGate == InitRoleGate /\ [][NextRoleGate]_vars

\* SpecEngine: arena 1 just started by its host (user 1, the prey) with
\* hunters 2 and 3; the engine, the clock, location updates, ends and leaves
EngineParticipant(u, loc) ==
  [EngineRecord(u, IF u = 1 THEN "prey" ELSE "hunter") EXCEPT !.loc = Some(loc)]

InitEngine ==
  /\ arenas = (1 :> [room_id |-> 1, mode |-> "predators", status |-> "active",
                     host_id |-> 1, duration_minutes |-> 12,
                     started_at |-> Some(0), ended_at |-> Undefined,
                     ended_reason |-> "undefined", winner_team |-> "undefined"])
  /\ arenaIdCounter = 2
  /\ \E gen \in Spawns :
       arenaParticipants = [k \in {1} \X Users |-> EngineParticipant(k[2], gen[k[2]])]
  /\ participantIdCounter = 4
  /\ now = 0
  /\ pendingJoins = {}
  /\ pendingEnds = [a \in ArenaInputs |-> 0]
  /\ proximityTrackers = <<>>
  /\ lastResult = Ok("startArena", 1, 1)
  /\ endWrites = [a \in ArenaInputs |-> 0]
  /\ captureCalls = [a \in ArenaInputs |-> 0]
  /\ leftWhileActive = {}
  /\ inRangeSince = <<>>

Hunters == {2, 3}
Mover == Min(Hunters)

NextEngine ==
  \/ StartProximityTracking(1)
  \/ StopProximityTracking(1)
  \/ Tick(1)
  \/ CaptureEndArena(1)
  \/ Advance
  \/ \E loc \in Locs : UpdateParticipantLocation(1, Mover, loc)
  \/ \E u \in Users : LeaveArena(1, u)
  \/ EndArena(1, 1, "host_ended", "undefined")
  \/ CancelArena(1, 1)

SpecEngine == InitEngine /\ [][NextEngine]_vars

\* SpecCapture: the started arena with its tracker running since the start,
\* the hunters moving; no end and no leave.  The interval timer keeps firing,
\* the clock keeps running and the pending endArena gets its turn
InitCapture ==
  /\ arenas = (1 :> [room_id |-> 1, mode |-> "predators", status |-> "active",
                     host_id |-> 1, duration_minutes |-> 12,
                     started_at |-> Some(0), ended_at |-> Undefined,
                     ended_reason |-> "undefined", winner_team |-> "undefined"])
  /\ arenaIdCounter = 2
  /\ \E gen \in Spawns :
       arenaParticipants = [k \in {1} \X Users |-> EngineParticipant(k[2], gen[k[2]])]
  /\ participantIdCounter = 4
  /\ now = 0
  /\ pendingJoins = {}
  /\ pendingEnds = [a \in ArenaInputs |-> 0]
  /\ LET c == checkProximity(1, [NewTracker EXCEPT !.isRunning = TRUE], <<>>) IN
       /\ proximityTrackers = (1 :> [c.tracker EXCEPT !.intervalSet = TRUE])
       /\ inRangeSince = (1 :> c.since)
  /\ lastResult = Ok("startArena", 1, 1)
  /\ endWrites = [a \in ArenaInputs |-> 0]
  /\ captureCalls = [a \in ArenaInputs |-> 0]
  /\ leftWhileActive = {}

NextCapture ==
  \/ Tick(1)
  \/ CaptureEndArena(1)
  \/ Advance
  \/ \E u \in Hunters, loc \in Locs : UpdateParticipantLocation(1, u, loc)

SpecCapture ==
  /\ InitCapture
  /\ [][NextCapture]_vars
  /\ WF_vars(Tick(1))
  /\ WF_vars(CaptureEndArena(1))
  /\ WF_vars(Advance)

\* SpecLobby: arena 1 of room 1 just created by user 1; two users join with
\* any role, twice and while calls are suspended, leave, the host assigns
\* roles and starts and ends the arena
InitLobby ==
  /\ arenas = (1 :> [room_id |-> 1, mode |-> "predators", status |-> "lobby",
                     host_id |-> 1, duration_minutes |-> 12,
                     started_at |-> Undefined, ended_at |-> Undefined,
                     ended_reason |-> "undefined", winner_team |-> "undefined"])
  /\ arenaIdCounter = 2
  /\ arenaParticipants = <<>>
  /\ participantIdCounter = 1
  /\ now = 0
  /\ pendingJoins = {}
  /\ pendingEnds = [a \in ArenaInputs |-> 0]
  /\ proximityTrackers = <<>>
  /\ lastResult = Ok("createArena", 1, 1)
  /\ endWrites = [a \in ArenaInputs |-> 0]
  /\ captureCalls = [a \in ArenaInputs |-> 0]
  /\ leftWhileActive = {}
  /\ inRangeSince = <<>>

NextLobby ==
  \/ \E u \in Callers, role \in Roles : JoinArenaBegin(1, u, role)
  \/ \E call \in pendingJoins : JoinArenaFinish(call)
  \/ \E u \in Callers : LeaveArena(1, u)
  \/ \E u \in Callers, role \in Roles : AssignRole(1, 1, u, role)
  \/ StartArena(1, 1, NoSpread)
  \/ EndArena(1, 1, "host_ended", "undefined")

SpecLobby == InitLobby /\ [][NextLobby]_vars

\* SpecRejoin: arena 1 of room 1 in lobby with users 1 and 2 joined, arena 2 of
\* room 2 in lobby with user 2 joined as hunter; user 2 leaves arena 2 and then
\* joins it with any role, while arena 1 is started and ended and left
InitRejoin ==
  /\ arenas = (1 :> [room_id |-> 1, mode |-> "predators", status |-> "lobby",
                     host_id |-> 1, duration_minutes |-> 12,
                     started_at |-> Undefined, ended_at |-> Undefined,
                     ended_reason |-> "undefined", winner_team |-> "undefined"]) @@
              (2 :> [room_id |-> 2, mode |-> "predators", status |-> "lobby",
                     host_id |-> 3, duration_minutes |-> 12,
                     started_at |-> Undefined, ended_at |-> Undefined,
                     ended_reason |-> "undefined", winner_team |-> "undefined"])
  /\ arenaIdCounter = 3
  /\ arenaParticipants = (<<1, 1>> :> LobbyParticipant(1, "prey")) @@
                         (<<1, 2>> :> LobbyParticipant(2, "hunter")) @@
                         (<<2, 2>> :> LobbyParticipant(3, "hunter"))
  /\ participantIdCounter = 4
  /\ now = 0
  /\ pendingJoins = {}
  /\ pendingEnds = [a \in ArenaInputs |-> 0]
  /\ proximityTrackers = <<>>
  /\ lastResult = Ok("joinArena", 2, 2)
  /\ endWrites = [a \in ArenaInputs |-> 0]
  /\ captureCalls = [a \in ArenaInputs |-> 0]
  /\ leftWhileActive = {}
  /\ inRangeSince = <<>>

NextRejoin ==
  \/ \E a \in ArenaInputs : LeaveArena(a, 2)
  \/ /\ arenaParticipants[<<2, 2>>].status = "left"   \* joinArena called after the leave
     /\ \E role \in Roles : JoinArenaBegin(2, 2, role)
  \/ \E call \in pendingJoins : JoinArenaFinish(call)
  \/ StartArena(1, 1, NoSpread)
  \/ EndArena(1, 1, "host_ended", "undefined")
  \/ Advance

SpecRejoin == InitRejoin /\ [][NextRejoin]_vars

\* SpecDistance: calculateDistance called on two points of a grid of whole
\* degrees around (0, 0)
Degrees == {-1, 0, 1}

InitDistance ==
  \E lat1 \in Degrees, lon1 \in Degrees, lat2 \in Degrees, lon2 \in Degrees :
    /\ arenas = <<>>
    /\ arenaIdCounter = 1
    /\ arenaParticipants = <<>>
    /\ participantIdCounter = 1
    /\ now = 0
    /\ pendingJoins = {}
    /\ pendingEnds = [a \in ArenaInputs |-> 0]
    /\ proximityTrackers = <<>>
    /\ lastResult = [NoResult EXCEPT !.details = <<lat1, lon1, lat2, lon2>>]
    /\ endWrites = [a \in ArenaInputs |-> 0]
    /\ captureCalls = [a \in ArenaInputs |-> 0]
    /\ leftWhileActive = {}
    /\ inRangeSince = <<>>

NextDistance == CalculateDistance

SpecDistance == InitDistance /\ [][NextDistance]_vars

\* SpecSignals: arena 1 in lobby with prey 1 and hunter 3 joined and user 2,
\* who joined before hunter 3, left; user 2 joins again as hunter or prey, the
\* call suspended while the host starts the arena, so that a joined
\* participant without coordinates meets the tracker's ticks
InitSignals ==
  /\ arenas = (1 :> [room_id |-> 1, mode |-> "predators", status |-> "lobby",
                     host_id |-> 1, duration_minutes |-> 12,
                     started_at |-> Undefined, ended_at |-> Undefined,
                     ended_reason |-> "undefined", winner_team |-> "undefined"])
  /\ arenaIdCounter = 2
  /\ arenaParticipants =
       (<<1, 1>> :> LobbyParticipant(1, "prey")) @@
       (<<1, 2>> :> [LobbyParticipant(2, "hunter") EXCEPT !.status = "left",
                                                          !.left_at = Some(0)]) @@
       (<<1, 3>> :> LobbyParticipant(3, "hunter"))
  /\ participantIdCounter = 4
  /\ now = 0
  /\ pendingJoins = {}
  /\ pendingEnds = [a \in ArenaInputs |-> 0]
  /\ proximityTrackers = <<>>
  /\ lastResult = Ok("leaveArena", 1, 2)
  /\ endWrites = [a \in ArenaInputs |-> 0]
  /\ captureCalls = [a \in ArenaInputs |-> 0]
  /\ leftWhileActive = {}
  /\ inRangeSince = <<>>

NextSignals ==
  \/ \E role \in {"hunter", "prey"} : JoinArenaBegin(1, 2, role)
  \/ \E call \in pendingJoins : JoinArenaFinish(call)
  \/ \E gen \in Spawns : StartArena(1, 1, gen)
  \/ StartProximityTracking(1)
  \/ Tick(1)
  \/ CaptureEndArena(1)
  \/ Advance
  \/ LeaveArena(1, 1)
  \/ \E loc \in Locs : UpdateParticipantLocation(1, 2, loc)

SpecSignals == InitSignals /\ [][NextSignals]_vars

\* SpecTimeout: SpecCapture's arena and scheduling, and the clock running to
\* the end of the arena's duration
NextTimeout ==
  \/ Tick(1)
  \/ CaptureEndArena(1)
  \/ Advance
  \/ Expire(1)
  \/ \E u \in Hunters, loc \in Locs : UpdateParticipantLocation(1, u, loc)

SpecTimeout ==
  /\ InitCapture
  /\ [][NextTimeout]_vars
  /\ WF_vars(Tick(1))
  /\ WF_vars(CaptureEndArena(1))
  /\ WF_vars(Advance)
  /\ WF_vars(Expire(1))

\* SpecMatch: arena 1 of room 1 in lobby with its prey (user 1, the host) and
\* its hunter (user 2) joined, played through: joins suspended on the
\* membership lookup, role assignment, start, location writes, leaves, the
\* capture a firing tick makes, every way of ending, and the clock
InitMatch == InitRooms

NextMatch ==
  \/ StartArena(1, 1, NoSpread)
  \/ \E u \in Callers : JoinArenaBegin(1, u, FirstRole[u])
  \/ \E call \in pendingJoins : JoinArenaFinish(call)
  \/ \E u \in Callers : LeaveArena(1, u)
  \/ AssignRole(1, 1, 2, "spectator")
  \/ \E u \in Callers, e \in EndInputs : EndArena(1, u, e[1], e[2])
  \/ CancelArena(1, 1)
  \/ /\ arenas[1].status = "active"
     /\ <<1, 1>> \in joinedKeys(1)
     /\ <<1, 2>> \in joinedKeys(1)
     /\ CapturePrey(1, 2, 1)     \* what a tick does that fires for hunter 2
  \/ CaptureEndArena(1)
  \/ UpdateParticipantLocation(1, 2, CAPTURE_DISTANCE_DM)
  \/ Advance

SpecMatch == InitMatch /\ [][NextMatch]_vars

\* ------------------------------------------------------------------- claims
RolesFit(arenaId) ==
  /\ Cardinality(withRole(joinedKeys(arenaId), "prey")) = RequiredPrey
  /\ Cardinality(withRole(joinedKeys(arenaId), "hunter")) >= MinHunters
  /\ Cardinality(withRole(joinedKeys(arenaId), "hunter")) <= MaxHunters

\* C1: in every reachable state each room has at most one arena with status
\* active, whatever the interleaving of createArena, startArena, joinArena,
\* leaveArena, endArena and captures by the engine
OneActiveArenaPerRoom ==
  \A r \in Rooms :
    Cardinality({a \in ArenaIds : arenas[a].room_id = r /\ arenas[a].status = "active"}) <= 1

\* a start of a second lobby arena of a room whose other arena is active was
\* refused, and nothing but the room check stood in its way
RacingStartRefused ==
  /\ lastResult.op = "startArena"
  /\ lastResult.code = "ACTIVE_ARENA_EXISTS"
  /\ arenas[lastResult.arena].status = "lobby"
  /\ lastResult.user = arenas[lastResult.arena].host_id
  /\ RolesFit(lastResult.arena)
  /\ inOtherActiveArena(lastResult.arena) = {}
  /\ \E a \in ArenaIds : /\ a # lastResult.arena
                          /\ arenas[a].room_id = arenas[lastResult.arena].room_id
                          /\ arenas[a].status = "active"

\* C2: in every reachable state each user has at most one participant record
\* with status joined whose arena has status active, also when joinArena calls
\* are suspended between their lobby check and their write while arenas start
OneActiveArenaPerUser ==
  \A u \in Users :
    Cardinality({k \in DOMAIN arenaParticipants :
                   /\ k[2] = u
                   /\ arenaParticipants[k].status = "joined"
                   /\ arenas[k[1]].status = "active"}) <= 1

\* a joinArena that was suspended while its arena started finished with
\* ALREADY_IN_ACTIVE_ARENA, its user being joined in another active arena
SuspendedJoinRefused ==
  /\ lastResult.op = "joinArena"
  /\ lastResult.code = "ALREADY_IN_ACTIVE_ARENA"
  /\ arenas[lastResult.arena].status = "active"
  /\ \E a \in ArenaIds : /\ a # lastResult.arena
                          /\ arenas[a].status = "active"
                          /\ <<a, lastResult.user>> \in DOMAIN arenaParticipants
                          /\ arenaParticipants[<<a, lastResult.user>>].status = "joined"

\* C4: lock on start: no participant record is created, and no participant's
\* status changes to joined, in an arena whose status is active or ended, also
\* for a joinArena suspended on its membership lookup while startArena ran
LockOnStart ==
  [][\A k \in DOMAIN arenaParticipants' :
       (k[1] \in ArenaIds /\ arenas[k[1]].status \in {"active", "ended"})
         => /\ k \in DOMAIN arenaParticipants
            /\ arenaParticipants'[k].status = "joined"
                 => arenaParticipants[k].status = "joined"]_vars

\* C5: finality of leaving: a participant whose status became left while its
\* arena was active never again has status joined in that arena
LeavingIsFinal ==
  \A k \in leftWhileActive : arenaParticipants[k].status # "joined"

\* C6: an arena's status only moves forward (lobby to active, active to ended,
\* lobby to ended), and a host call of startArena or endArena on an ended
\* arena fails with InvalidStateTransition
ForwardSteps == {<<"lobby", "active">>, <<"active", "ended">>, <<"lobby", "ended">>}

StatusMovesForward ==
  /\ [][\A a \in ArenaIds :
          /\ a \in DOMAIN arenas'
          /\ arenas'[a].status # arenas[a].status
               => <<arenas[a].status, arenas'[a].status>> \in ForwardSteps]_vars
  /\ [](\A a \in ArenaIds :
          arenas[a].status = "ended"
            => /\ startArenaError(a, arenas[a].host_id).code = "INVALID_STATE_TRANSITION"
               /\ \A e \in EndInputs :
                    endArenaError("endArena", a, arenas[a].host_id, e[1]).code
                      = "INVALID_STATE_TRANSITION")

\* the host called startArena on its ended arena and was refused
HostStartOnEndedRefused ==
  /\ lastResult.op = "startArena"
  /\ lastResult.code = "INVALID_STATE_TRANSITION"
  /\ arenas[lastResult.arena].status = "ended"
  /\ IsSet(arenas[lastResult.arena].started_at)
  /\ lastResult.user = arenas[lastResult.arena].host_id

\* C7: once an arena has status ended, its status, ended_at, ended_reason and
\* winner_team never change again, whichever of a capture, a host end and an
\* all-left end applied first
EndedArenaIsFrozen ==
  [][\A a \in ArenaIds :
       arenas[a].status = "ended"
         => /\ a \in DOMAIN arenas'
            /\ arenas'[a].status = arenas[a].status
            /\ arenas'[a].ended_at = arenas[a].ended_at
            /\ arenas'[a].ended_reason = arenas[a].ended_reason
            /\ arenas'[a].winner_team = arenas[a].winner_team]_vars

\* the capture's endArena ran after the all-left end and was refused
CaptureEndAfterAllLeft ==
  /\ arenas[1].status = "ended"
  /\ arenas[1].ended_reason = "all_left"
  /\ lastResult.op = "capturePrey"
  /\ lastResult.code = "INVALID_STATE_TRANSITION"

\* C3: in any interleaving of engine ticks with host endArena, cancelArena
\* and leaveArena, an arena is moved to ended at most once and the engine
\* calls capturePrey for it at most once
EndedAndCapturedOnce ==
  \A a \in ArenaInputs : endWrites[a] <= 1 /\ captureCalls[a] <= 1

\* a capture fired, the host's end applied first, and a tracker started
\* afterwards stopped itself on its first check, its interval left armed:
\* more ticks are due
TicksAfterCapture ==
  /\ captureCalls[1] = 1
  /\ endWrites[1] = 1
  /\ arenas[1].ended_reason = "host_ended"
  /\ 1 \in DOMAIN proximityTrackers
  /\ proximityTrackers[1].intervalSet
  /\ ~proximityTrackers[1].isRunning

\* C10: a hunter measured in range, out of range and in range again is
\* credited from the re-entry tick only: a capture fires no earlier than
\* CAPTURE_HOLD_MS after the tick that began the hunter's unbroken run
CapturedPrey(a) ==
  {k \in getArenaParticipants(a) : IsSet(arenaParticipants[k].captured_by_user_id)}

FreshHoldAfterReentry ==
  [][\A a \in ArenaIds :
       captureCalls'[a] > captureCalls[a]
         => \A k \in {j \in DOMAIN arenaParticipants' :
                        j[1] = a /\ IsSet(arenaParticipants'[j].captured_by_user_id)} :
              LET h == Val(arenaParticipants'[k].captured_by_user_id) IN
              /\ a \in DOMAIN inRangeSince
              /\ h \in DOMAIN inRangeSince[a]
              /\ inRangeSince[a][h].at # Outside
              /\ now - inRangeSince[a][h].at >= CAPTURE_HOLD_MS]_vars

\* a hunter that had left the range and come back has captured the prey
CaptureAfterReentry ==
  \E k \in CapturedPrey(1) :
    LET h == Val(arenaParticipants[k].captured_by_user_id) IN
    /\ 1 \in DOMAIN inRangeSince
    /\ h \in DOMAIN inRangeSince[1]
    /\ inRangeSince[1][h].re
    /\ inRangeSince[1][h].at > 0
    /\ Val(arenaParticipants[k].captured_at) = inRangeSince[1][h].at + CAPTURE_HOLD_MS

\* C8: role gate.  Counted(a, role) is the number of participants of the arena
\* with that role and status joined
Counted(a, role) ==
  Cardinality({k \in DOMAIN arenaParticipants :
                 /\ k[1] = a
                 /\ arenaParticipants[k].role = role
                 /\ arenaParticipants[k].status = "joined"})

RolesUnfit(a) ==
  \/ Counted(a, "prey") # 1
  \/ Counted(a, "hunter") < 1
  \/ Counted(a, "hunter") > 12

ObservedCount(a) ==
  IF Counted(a, "prey") # 1 THEN <<"prey_count", Counted(a, "prey")>>
  ELSE <<"hunter_count", Counted(a, "hunter")>>

HunterInRange(h) ==
  /\ IsSet(arenaParticipants[<<1, 1>>].loc)
  /\ IsSet(arenaParticipants[<<1, h>>].loc)
  /\ calculateDistance(Val(arenaParticipants[<<1, 1>>].loc),
                       Val(arenaParticipants[<<1, h>>].loc)) <= 25

EndedByCapture ==
  /\ arenas[1].status = "ended"
  /\ arenas[1].ended_reason = "capture"
  /\ arenas[1].winner_team = "hunters"
  /\ arenaParticipants[<<1, 1>>].status = "captured"

RejoinRefusedAsFinal ==
  [][\A u \in Users, role \in Roles :
       (/\ 1 \in ArenaIds
        /\ arenas[1].status = "active"
        /\ <<1, u>> \in DOMAIN arenaParticipants
        /\ arenaParticipants[<<1, u>>].status = "left"
        /\ JoinArenaBegin(1, u, role))
         => /\ lastResult'.code = "CANNOT_REJOIN_ACTIVE"
            /\ arenas' = arenas
            /\ arenaParticipants' = arenaParticipants]_vars

LeaveTwice ==
  [][\A u \in Users :
       (/\ <<1, u>> \in DOMAIN arenaParticipants
        /\ arenaParticipants[<<1, u>>].status = "left"
        /\ LeaveArena(1, u))
         => /\ lastResult'.success
            /\ arenas' = arenas
            /\ arenaParticipants' = arenaParticipants]_vars

\* a participant called leaveArena again after another participant had left
\* later than it: its left_at is still the earlier one
LeftAgainLater ==
  /\ lastResult.op = "leaveArena"
  /\ lastResult.success
  /\ \E v \in Users \ {lastResult.user} :
       /\ arenaParticipants[<<1, lastResult.user>>].status = "left"
       /\ arenaParticipants[<<1, v>>].status = "left"
       /\ Val(arenaParticipants[<<1, v>>].left_at)
            > Val(arenaParticipants[<<1, lastResult.user>>].left_at)

\* C14: endArena with reason host_ended by a user that is not the host fails
\* with NotHost and changes neither the arena nor a participant; by the host
\* on a lobby or active arena it succeeds and sets status ended; startArena by
\* the host on an ended arena fails with InvalidStateTransition
HostEnds ==
  /\ [][\A u \in Callers :
          (1 \in ArenaIds /\ EndArena(1, u, "host_ended", "undefined"))
            => IF u # arenas[1].host_id
                 THEN /\ lastResult'.code = "NOT_HOST"
                      /\ arenas' = arenas
                      /\ arenaParticipants' = arenaParticipants
                 ELSE arenas[1].status \in {"lobby", "active"}
                        => /\ lastResult'.success
                           /\ arenas'[1].status = "ended"
                           /\ arenas'[1].ended_reason = "host_ended"]_vars
  /\ [](\A a \in ArenaIds :
          arenas[a].ended_reason = "host_ended"
            => startArenaError(a, arenas[a].host_id).code = "INVALID_STATE_TRANSITION")

\* a user that is not the host called endArena on the active arena and was
\* refused
NonHostEndRefused ==
  /\ lastResult.op = "endArena"
  /\ lastResult.code = "NOT_HOST"
  /\ arenas[lastResult.arena].status = "active"
  /\ lastResult.user # arenas[lastResult.arena].host_id

\* C15: when startArena succeeds the arena has status active and started_at
\* stamped, the single joined prey has its BLE flag on with a start timestamp,
\* no other participant's BLE flag is on, and no participant's role or status
\* was changed by the start
StartEffects ==
  [][\A u \in Callers :
       (1 \in ArenaIds /\ StartArena(1, u, NoSpread) /\ lastResult'.success)
         => /\ arenas'[1].status = "active"
            /\ arenas'[1].started_at = Some(now)
            /\ DOMAIN arenaParticipants' = DOMAIN arenaParticipants
            /\ \A k \in DOMAIN arenaParticipants :
                 /\ arenaParticipants'[k].role = arenaParticipants[k].role
                 /\ arenaParticipants'[k].status = arenaParticipants[k].status
            /\ \E k \in DOMAIN arenaParticipants :
                 /\ k[1] = 1
                 /\ arenaParticipants[k].role = "prey"
                 /\ arenaParticipants[k].status = "joined"
                 /\ arenaParticipants'[k].is_ble_broadcasting
                 /\ arenaParticipants'[k].ble_started_at = Some(now)
                 /\ \A k2 \in DOMAIN arenaParticipants \ {k} :
                      /\ ~arenaParticipants'[k2].is_ble_broadcasting
                      /\ ~(/\ k2[1] = 1
                           /\ arenaParticipants[k2].role = "prey"
                           /\ arenaParticipants[k2].status = "joined")]_vars

\* the host started the arena with a prey, a hunter and a spectator joined:
\* only the prey broadcasts
StartedWithSpectator ==
  /\ lastResult.op = "startArena"
  /\ lastResult.success
  /\ arenas[1].status = "active"
  /\ \E k \in joinedKeys(1) : arenaParticipants[k].role = "spectator"
  /\ \E k \in joinedKeys(1) :
       arenaParticipants[k].role = "prey" /\ arenaParticipants[k].is_ble_broadcasting

\* C16: after a leaveArena that succeeds on an active arena, a participant of
\* the arena still has status joined or the arena has status ended with
\* ended_reason all_left and ended_at stamped; a leave in a lobby arena does
\* not change the arena
AllLeftCascade ==
  [][\A k \in DOMAIN arenaParticipants :
       (LeaveArena(k[1], k[2]) /\ lastResult'.success)
         => /\ arenas[k[1]].status = "active"
                 => \/ \E j \in DOMAIN arenaParticipants' :
                         j[1] = k[1] /\ arenaParticipants'[j].status = "joined"
                    \/ /\ arenas'[k[1]].status = "ended"
                       /\ arenas'[k[1]].ended_reason = "all_left"
                       /\ IsSet(arenas'[k[1]].ended_at)
            /\ arenas[k[1]].status = "lobby" => arenas' = arenas]_vars

\* the last joined participant left the active arena, its prey captured
\* before and the capture's endArena still to run: the arena ended as all_left
LastLeaverEnded ==
  /\ lastResult.op = "leaveArena"
  /\ lastResult.success
  /\ arenas[1].status = "ended"
  /\ arenas[1].ended_reason = "all_left"
  /\ arenaParticipants[<<1, 1>>].status = "captured"
  /\ pendingEnds[1] > 0

\* C17: when startArena succeeds on a predators arena a tracker of that arena
\* is running on return, and when endArena succeeds no tracker of that arena
\* is running on return
TrackerRuns(trackers, a) ==
  a \in DOMAIN trackers /\ (trackers[a].isRunning \/ trackers[a].intervalSet)

EngineFollowsArena ==
  [][\A a \in ArenaIds :
       /\ (/\ arenas[a].status = "lobby"
            /\ arenas'[a].status = "active"
            /\ arenas[a].mode = "predators")
              => TrackerRuns(proximityTrackers', a)
       /\ (/\ arenas[a].status # "ended"
            /\ arenas'[a].status = "ended"
            /\ lastResult'.op \in {"endArena", "cancelArena", "capturePrey"}
            /\ lastResult'.success)
              => ~TrackerRuns(proximityTrackers', a)]_vars

StopIsIdempotent ==
  /\ [](LET once == stopProximityTracking(proximityTrackers, 1) IN
          /\ stopProximityTracking(once, 1) = once
          /\ 1 \notin DOMAIN once
          /\ 1 \notin DOMAIN proximityTrackers => once = proximityTrackers)
  /\ [][StopProximityTracking(1)
          => /\ 1 \notin DOMAIN proximityTrackers'
             /\ arenas' = arenas
             /\ arenaParticipants' = arenaParticipants
             /\ pendingEnds' = pendingEnds
             /\ captureCalls' = captureCalls]_vars
  /\ [](1 \notin DOMAIN proximityTrackers => ~ENABLED Tick(1))

\* the tracker that had fired a capture, and stopped itself doing so, was
\* stopped once more and dropped while the capture's endArena was pending
StoppedAfterCapture ==
  /\ captureCalls[1] = 1
  /\ pendingEnds[1] = 1
  /\ arenas[1].status = "active"
  /\ 1 \notin DOMAIN proximityTrackers

\* C20: in every reachable state a participant whose BLE flag is on has role
\* prey and status joined and belongs to an arena with status active
BleOnlyActivePrey ==
  \A k \in DOMAIN arenaParticipants :
    arenaParticipants[k].is_ble_broadcasting
      => /\ arenaParticipants[k].role = "prey"
         /\ arenaParticipants[k].status = "joined"
         /\ arenas[k[1]].status = "active"

\* the prey that had been broadcasting left last: the arena ended as all_left
\* and no flag is on
BleOffAfterAllLeft ==
  /\ arenas[1].status = "ended"
  /\ arenas[1].ended_reason = "all_left"
  /\ arenaParticipants[<<1, 1>>].status = "left"
  /\ IsSet(arenaParticipants[<<1, 1>>].ble_started_at)
  /\ \A k \in DOMAIN arenaParticipants : ~arenaParticipants[k].is_ble_broadcasting

\* C21: in every reachable state is_captured is true exactly when captured_at
\* is set, and a participant with status captured has is_captured true,
\* captured_at set and the capturing hunter's id recorded
CaptureMetadataConsistent ==
  \A k \in DOMAIN arenaParticipants :
    /\ arenaParticipants[k].is_captured <=> IsSet(arenaParticipants[k].captured_at)
    /\ arenaParticipants[k].status = "captured"
         => /\ arenaParticipants[k].is_captured
            /\ IsSet(arenaParticipants[k].captured_at)
            /\ IsSet(arenaParticipants[k].captured_by_user_id)

\* C21 (amended): in every reachable state is_captured is true exactly when
\* captured_at is set, a participant with status captured has is_captured
\* true and captured_at set, and a capturing hunter's id is recorded only on
\* an is_captured participant; capturePrey records the id of the hunter it was
\* called with, endArena with reason capture and winner hunters marks the
\* joined prey captured and leaves captured_by_user_id as it was
CaptureStateValid ==
  /\ [](\A k \in DOMAIN arenaParticipants :
          /\ arenaParticipants[k].is_captured <=> IsSet(arenaParticipants[k].captured_at)
          /\ arenaParticipants[k].status = "captured" => arenaParticipants[k].is_captured
          /\ IsSet(arenaParticipants[k].captured_by_user_id)
               => arenaParticipants[k].is_captured)
  /\ [][(CapturePrey(1, 2, 1) /\ capturePreyError(1, 1) = "PENDING")
          => (/\ arenaParticipants'[<<1, 1>>].status = "captured"
              /\ arenaParticipants'[<<1, 1>>].captured_by_user_id = Some(2))]_vars
  /\ [][\A u \in Callers :
          (/\ EndArena(1, u, "capture", "hunters")
           /\ lastResult'.success
           /\ <<1, 1>> \in joinedKeys(1))
          => (/\ arenaParticipants'[<<1, 1>>].status = "captured"
              /\ arenaParticipants'[<<1, 1>>].captured_by_user_id
                   = arenaParticipants[<<1, 1>>].captured_by_user_id)]_vars

\* the prey was marked captured by endArena: no hunter is recorded
CapturedWithoutHunterId ==
  /\ arenas[1].status = "ended"
  /\ arenas[1].ended_reason = "capture"
  /\ captureCalls[1] = 0
  /\ arenaParticipants[<<1, 1>>].status = "captured"
  /\ arenaParticipants[<<1, 1>>].is_captured
  /\ IsSet(arenaParticipants[<<1, 1>>].captured_at)
  /\ ~IsSet(arenaParticipants[<<1, 1>>].captured_by_user_id)

\* C22: roles are locked once the arena starts: no participant's role changes
\* while its arena is active or ended, under any interleaving of assignRole,
\* joinArena, leaveArena and startArena, and a host's assignRole on an arena
\* that is not in lobby fails with ArenaNotInLobby
RolesLockedOnceStarted ==
  /\ [][\A k \in DOMAIN arenaParticipants :
          arenas[k[1]].status \in {"active", "ended"}
            => arenaParticipants'[k].role = arenaParticipants[k].role]_vars
  /\ [][\A u \in Callers, role \in Roles :
          (AssignRole(1, 1, u, role) /\ arenas[1].status # "lobby")
            => (~lastResult'.success /\ lastResult'.code = "ARENA_NOT_IN_LOBBY")]_vars

\* C23: there is at most one participant record per (arena id, user id) pair,
\* also when two joinArena calls of one user for one arena run concurrently:
\* every id handed out names exactly one record, a record once created is
\* never removed or replaced by another, and the call that finds the record
\* already there returns a successful Result carrying that record, not the
\* INVALID_INPUT made from an exception of the store
OneRecordPerArenaAndUser ==
  /\ [](/\ Cardinality(DOMAIN arenaParticipants) = participantIdCounter - 1
        /\ \A k1, k2 \in DOMAIN arenaParticipants :
             arenaParticipants[k1].id = arenaParticipants[k2].id => k1 = k2)
  /\ [][\A k \in DOMAIN arenaParticipants :
          /\ k \in DOMAIN arenaParticipants'
          /\ arenaParticipants'[k].id = arenaParticipants[k].id]_vars
  /\ [][\A call \in pendingJoins :
          (JoinArenaFinish(call) /\ <<call.arena, call.user>> \in DOMAIN arenaParticipants)
            => (/\ lastResult'.op = "joinArena"
                /\ lastResult'.user = call.user
                /\ lastResult'.success
                /\ lastResult'.details[2] = arenaParticipants[<<call.arena, call.user>>].id
                /\ participantIdCounter' = participantIdCounter)]_vars

\* of two joinArena calls of user 1 in flight together, the one asking for
\* prey has created the record and the one asking for hunter is still
\* suspended
JoinRaceWon ==
  /\ \E call \in pendingJoins : call.arena = 1 /\ call.user = 1 /\ call.role = "hunter"
  /\ <<1, 1>> \in DOMAIN arenaParticipants
  /\ arenaParticipants[<<1, 1>>].role = "prey"
  /\ arenaParticipants[<<1, 1>>].status = "joined"
  /\ lastResult.op = "joinArena" /\ lastResult.user = 1 /\ lastResult.success
  /\ lastResult.details = <<"prey", participantIdCounter - 1, "prey", "joined">>
  /\ participantIdCounter = 2

\* C24: arena timestamps are set exactly once and agree with the status:
\* started_at is written exactly by the step from lobby to active, ended_at
\* exactly by the step that makes the arena ended, neither changes afterwards,
\* and when both are present started_at is not later than ended_at
TimestampsSetOnce ==
  /\ [](\A a \in ArenaIds :
          /\ IsSet(arenas[a].ended_at) <=> arenas[a].status = "ended"
          /\ arenas[a].status = "lobby" => ~IsSet(arenas[a].started_at)
          /\ arenas[a].status = "active" => IsSet(arenas[a].started_at)
          /\ IsSet(arenas[a].started_at) /\ IsSet(arenas[a].ended_at)
               => Val(arenas[a].started_at) <= Val(arenas[a].ended_at))
  /\ [][\A a \in ArenaIds :
          /\ (arenas[a].status = "lobby" /\ arenas'[a].status = "active")
               => arenas'[a].started_at = Some(now)
          /\ arenas'[a].started_at # arenas[a].started_at
               => (arenas[a].status = "lobby" /\ arenas'[a].status = "active")
          /\ (arenas[a].status # "ended" /\ arenas'[a].status = "ended")
               => arenas'[a].ended_at = Some(now)
          /\ arenas'[a].ended_at # arenas[a].ended_at
               => (arenas[a].status # "ended" /\ arenas'[a].status = "ended")]_vars

\* the arena was started, ended later, and an endArena called later still was
\* refused
EndRefusedAfterEnd ==
  /\ arenas[1].status = "ended"
  /\ IsSet(arenas[1].started_at)
  /\ Val(arenas[1].started_at) < Val(arenas[1].ended_at)
  /\ Val(arenas[1].ended_at) < now
  /\ lastResult.op = "endArena" /\ ~lastResult.success
  /\ lastResult.code = "INVALID_STATE_TRANSITION"

\* C25: cancelArena is a lobby-only operation: a cancelArena call on an arena
\* that is not in lobby does not change the arena, so no arena that was ever
\* active (started_at set) has ended_reason cancelled
CancelledOnlyFromLobby ==
  /\ [](\A a \in ArenaIds :
          arenas[a].ended_reason = "cancelled" => ~IsSet(arenas[a].started_at))
  /\ [][(CancelArena(1, 1) /\ arenas[1].status # "lobby")
          => arenas' = arenas]_vars
\* C26: startArena succeeds only if the host is a participant: whenever an
\* arena becomes active, its host has a participant record with status joined
\* in it
HostJoinedAtStart ==
  [][\A a \in ArenaIds :
       (arenas[a].status = "lobby" /\ arenas'[a].status = "active")
         => <<a, arenas[a].host_id>> \in joinedKeys(a)]_vars
\* C27: the participant statuses captured and escaped are final: a participant
\* whose status is captured or escaped keeps that status in every later step,
\* whatever operation is called
CapturedAndEscapedAreFinal ==
  [][\A k \in DOMAIN arenaParticipants :
       arenaParticipants[k].status \in {"captured", "escaped"}
         => /\ k \in DOMAIN arenaParticipants'
            /\ arenaParticipants'[k].status = arenaParticipants[k].status]_vars

\* C28: an ended arena is read-only including its participants: once the
\* arena has status ended no participant record of it is created, and none
\* changes its status, role, left_at or capture metadata, by any later call
EndedArenaParticipantsFrozen ==
  [][\A k \in DOMAIN arenaParticipants' :
       (k[1] \in ArenaIds /\ arenas[k[1]].status = "ended")
         => /\ k \in DOMAIN arenaParticipants
            /\ arenaParticipants'[k].status = arenaParticipants[k].status
            /\ arenaParticipants'[k].role = arenaParticipants[k].role
            /\ arenaParticipants'[k].left_at = arenaParticipants[k].left_at
            /\ arenaParticipants'[k].is_captured = arenaParticipants[k].is_captured
            /\ arenaParticipants'[k].captured_at = arenaParticipants[k].captured_at
            /\ arenaParticipants'[k].captured_by_user_id
                 = arenaParticipants[k].captured_by_user_id]_vars

\* C29: timeout: when an active arena's duration has expired without a
\* capture, the arena becomes ended with ended_reason timeout and winner_team
\* prey and its prey escaped; so an arena that is active is eventually ended
\* even if no user and no capture ends it
TimeoutEndsArena ==
  /\ [](/\ arenas[1].status = "active"
        /\ timeRemaining(1) = 0
        /\ captureCalls[1] = 0
        => <>(\/ captureCalls[1] > 0
              \/ /\ arenas[1].status = "ended"
                 /\ arenas[1].ended_reason = "timeout"
                 /\ arenas[1].winner_team = "prey"
                 /\ \E k \in DOMAIN arenaParticipants :
                      /\ arenaParticipants[k].role = "prey"
                      /\ arenaParticipants[k].status = "escaped"))
  /\ [](arenas[1].status = "active" => <>(arenas[1].status = "ended"))
\* C30: a participant's last known location changes only while its arena has
\* status active (the start of the arena included): no location write is
\* applied to a participant of a lobby or ended arena
LocationOnlyWhileActive ==
  [][\A k \in DOMAIN arenaParticipants :
       (k \in DOMAIN arenaParticipants' /\ arenaParticipants'[k].loc # arenaParticipants[k].loc)
         => arenas'[k[1]].status = "active"]_vars

\* C31: the haversine distance is zero from a point to itself, is symmetric
\* in its two points, and is within 1% of 111,195 m between (0,0) and (0,1)
HaversineCorrect ==
  lastResult.op = "calculateDistance" =>
    LET in == lastResult.details
        d == in[5]
    IN /\ (in[1] = in[3] /\ in[2] = in[4]) => d = 0
       /\ d = haversineMeters(in[3], in[4], in[1], in[2])
       /\ (in[1] = 0 /\ in[2] = 0 /\ in[3] = 0 /\ in[4] = 1)
            => (100 * d >= 99 * 111195 /\ 100 * d <= 101 * 111195)

\* the distance between (0,0) and (0,1) has been computed
OneDegreeOfEquator ==
  /\ lastResult.op = "calculateDistance"
  /\ SubSeq(lastResult.details, 1, 4) = <<0, 0, 0, 1>>
  /\ lastResult.details[5] > 0

CaptureOnlyAfterHold ==
  /\ [][captureCalls'[1] > captureCalls[1]
          => /\ captureCalls'[1] = captureCalls[1] + 1
             /\ arenas[1].status = "active"
             /\ 1 \in DOMAIN proximityTrackers
             /\ proximityTrackers[1].intervalSet
             /\ \E h \in Hunters :
                  LET prey == arenaParticipants[<<1, 1>>]
                      hunter == arenaParticipants[<<1, h>>]
                      states == proximityTrackers[1].hunterStates
                  IN /\ arenaParticipants'[<<1, 1>>].captured_by_user_id = Some(h)
                     /\ prey.role = "prey" /\ prey.status = "joined" /\ IsSet(prey.loc)
                     /\ hunter.role = "hunter" /\ hunter.status = "joined"
                     /\ IsSet(hunter.loc)
                     /\ calculateDistance(Val(prey.loc), Val(hunter.loc))
                          <= CAPTURE_DISTANCE_DM
                     /\ h \in DOMAIN states
                     /\ IsSet(states[h])
                     /\ now - Val(states[h]) >= CAPTURE_HOLD_MS
                     /\ 1 \in DOMAIN inRangeSince
                     /\ h \in DOMAIN inRangeSince[1]
                     /\ inRangeSince[1][h].at = Val(states[h])]_vars
  /\ [](1 \in ArenaIds
         => ~IsSet(checkProximity(1, [NewTracker EXCEPT !.isRunning = TRUE], <<>>).capture))

\* the second hunter was first measured in range at the second instant and
\* captured at the third, the first hunter being out of range
HeldThenCaptured ==
  /\ captureCalls[1] = 1
  /\ arenaParticipants[<<1, 1>>].captured_by_user_id = Some(3)
  /\ arenaParticipants[<<1, 1>>].captured_at = Some(2 * TimeStep)
  /\ 1 \in DOMAIN inRangeSince
  /\ 3 \in DOMAIN inRangeSince[1]
  /\ inRangeSince[1][3].at = TimeStep
  /\ ~HunterInRange(2)

\* C34: missing signals on a tick: when no joined prey exists or the prey has
\* no recorded location, the tick changes no proximity state, fires no capture
\* and leaves the tracker running; otherwise, on a tick that fires no capture,
\* a joined hunter without a recorded location has no proximity start
\* afterwards, and every other joined hunter was still evaluated: one measured
\* in range has a proximity start, one measured out of range has none
MissingSignalsSkipped ==
  [][Tick(1) =>
       LET t == proximityTrackers[1]
           preys == withRole(joinedKeys(1), "prey")
           hunters == withRole(joinedKeys(1), "hunter")
           evaluated == ~t.captureFired /\ arenaIsTracked(1)
           preyMissing == preys = {} \/ ~IsSet(arenaParticipants[FirstKey(preys)].loc)
       IN /\ (evaluated /\ preyMissing)
              => (/\ proximityTrackers' = proximityTrackers
                  /\ proximityTrackers'[1].intervalSet
                  /\ captureCalls' = captureCalls)
          /\ (evaluated /\ ~preyMissing /\ captureCalls' = captureCalls)
              => \A k \in hunters :
                   LET states == proximityTrackers'[1].hunterStates
                       started == k[2] \in DOMAIN states /\ IsSet(states[k[2]])
                   IN IF ~IsSet(arenaParticipants[k].loc) THEN ~started
                      ELSE started <=>
                             calculateDistance(
                               Val(arenaParticipants[FirstKey(preys)].loc),
                               Val(arenaParticipants[k].loc)) <= CAPTURE_DISTANCE_DM]_vars

\* hunter 2 is joined without coordinates in the active arena and the running
\* tracker holds a proximity start for hunter 3, who comes after hunter 2
HunterAfterMissingOneTimed ==
  /\ arenas[1].status = "active"
  /\ arenaParticipants[<<1, 2>>].status = "joined"
  /\ arenaParticipants[<<1, 2>>].role = "hunter"
  /\ ~IsSet(arenaParticipants[<<1, 2>>].loc)
  /\ 1 \in DOMAIN proximityTrackers
  /\ proximityTrackers[1].isRunning
  /\ 2 \notin DOMAIN proximityTrackers[1].hunterStates
  /\ 3 \in DOMAIN proximityTrackers[1].hunterStates
  /\ proximityTrackers[1].hunterStates[3] = Some(now)
  /\ now > Val(arenas[1].started_at)
  /\ lastResult.op = "joinArena" /\ lastResult.user = 2

\* C35: a tick whose capture attempt succeeds (the prey is marked captured
\* and the arena's end is under way) leaves the tracker's capture latch set;
\* the latch is reset only by an attempt that failed
LatchKeptOnSuccess ==
  [][(Tick(1) /\ arenaParticipants' # arenaParticipants)
       => proximityTrackers'[1].captureFired]_vars

\* C36: an operation that returns a failure leaves every arena and
\* participant record as it was before the call.  The operations that run in
\* one turn are compared across their step; capturePrey returns what the
\* endArena it called returns, so after its only call in the arena has failed
\* no participant may carry the capture it wrote
FailureLeavesRecords ==
  /\ [][(lastResult' # lastResult /\ ~lastResult'.success)
          => UNCHANGED <<arenas, arenaParticipants>>]_vars
  /\ []((/\ lastResult.op = "capturePrey"
         /\ ~lastResult.success
         /\ captureCalls[1] = 1)
          => \A k \in DOMAIN arenaParticipants : ~arenaParticipants[k].is_captured)

\* C37: a joinArena with role r that finishes in a lobby arena for a user whose
\* record there has status left succeeds and sets that record to joined with
\* left_at cleared and role r; the record keeps its id, no record is added and
\* no other record changes
LobbyRejoin ==
  [][\A call \in pendingJoins :
       LET k == <<call.arena, call.user>> IN
       (/\ JoinArenaFinish(call)
        /\ arenas[call.arena].status = "lobby"
        /\ k \in DOMAIN arenaParticipants
        /\ arenaParticipants[k].status = "left")
         => /\ lastResult'.success
            /\ DOMAIN arenaParticipants' = DOMAIN arenaParticipants
            /\ participantIdCounter' = participantIdCounter
            /\ arenaParticipants'[k] = [arenaParticipants[k] EXCEPT
                                          !.status = "joined",
                                          !.left_at = Undefined,
                                          !.role = call.role]
            /\ \A o \in DOMAIN arenaParticipants \ {k} :
                 arenaParticipants'[o] = arenaParticipants[o]]_vars

\* C37, amended: the same for a user who is joined in no other active arena
LobbyRejoinWhenFree ==
  [][\A call \in pendingJoins :
       LET k == <<call.arena, call.user>> IN
       (/\ JoinArenaFinish(call)
        /\ arenas[call.arena].status = "lobby"
        /\ k \in DOMAIN arenaParticipants
        /\ arenaParticipants[k].status = "left"
        /\ \A a \in ArenaIds \ {call.arena} :
             ~(/\ arenas[a].status = "active"
               /\ <<a, call.user>> \in DOMAIN arenaParticipants
               /\ arenaParticipants[<<a, call.user>>].status = "joined"))
         => /\ lastResult'.success
            /\ DOMAIN arenaParticipants' = DOMAIN arenaParticipants
            /\ participantIdCounter' = participantIdCounter
            /\ arenaParticipants'[k] = [arenaParticipants[k] EXCEPT
                                          !.status = "joined",
                                          !.left_at = Undefined,
                                          !.role = call.role]
            /\ \A o \in DOMAIN arenaParticipants \ {k} :
                 arenaParticipants'[o] = arenaParticipants[o]]_vars

\* user 2 left lobby arena 2, where it was a hunter, after a first instant, and
\* joined it again as prey: one record, the one with id 3, joined again with
\* left_at cleared, while arena 1, which the user left, is active
RejoinedAsPrey ==
  /\ arenas[2].status = "lobby"
  /\ arenas[1].status = "active"
  /\ arenaParticipants[<<1, 2>>].status = "left"
  /\ lastResult.op = "joinArena" /\ lastResult.arena = 2 /\ lastResult.user = 2
  /\ lastResult.success
  /\ lastResult.details[1] = "prey"
  /\ arenaParticipants[<<2, 2>>] = LobbyParticipant(3, "prey")
  /\ participantIdCounter = 4
  /\ now > 0
  /\ pendingJoins = {}

\* C38: in an ended arena one of whose participants has is_captured true the
\* ended_reason is capture and the winner_team is hunters
CaptureOutcomeAgrees ==
  \A k \in DOMAIN arenaParticipants :
    (arenas[k[1]].status = "ended" /\ arenaParticipants[k].is_captured)
      => /\ arenas[k[1]].ended_reason = "capture"
         /\ arenas[k[1]].winner_team = "hunters"

\* C39: an active arena in predators mode has at most one participant with
\* role prey and status joined
OnePreyWhileActive ==
  \A a \in ArenaIds :
    (arenas[a].status = "active" /\ arenas[a].mode = "predators")
      => Cardinality(withRole(joinedKeys(a), "prey")) <= 1

\* C40: an arena whose ended_reason is capture, timeout or all_left has
\* started_at set, and an endArena of a caller who is not the host leaves a
\* lobby arena in lobby
SystemReasonsOnlyAfterStart ==
  /\ [](\A a \in ArenaIds :
          arenas[a].ended_reason \in {"capture", "timeout", "all_left"}
            => IsSet(arenas[a].started_at))
  /\ [][\A u \in Callers, e \in EndInputs :
          (/\ EndArena(1, u, e[1], e[2])
           /\ arenas[1].status = "lobby"
           /\ u # arenas[1].host_id)
            => arenas'[1].status = "lobby"]_vars
====
